---- MODULE Spec2Model ----
(***************************************************************************)
(* Model of sciwork's Shimadzu UVProbe .spc decoder,                       *)
(* src/src/sciwork/fs/parsers/uvvis_spc.py (load_uvvis_spc and helpers).   *)
(*                                                                         *)
(* Numbers.  Wavelengths are integers counting 1e-4 nm (so "400.0" is      *)
(* 4000000), the rounded axis counts 1e-3 nm, absorbances count 1e-6       *)
(* absorbance units.  Arithmetic is exact rational arithmetic on these     *)
(* integers; the tokens and values enumerated below are exactly            *)
(* representable at these scales.                                          *)
(*                                                                         *)
(* The file.  A buffer is described by what the decoder reads from it:     *)
(* its length, the outcome of every regular-expression capture on its      *)
(* text, and the numbers numpy reads at each byte position for each of     *)
(* the two element types.                                                  *)
(***************************************************************************)
EXTENDS Integers, Sequences, FiniteSets, TLC

VARIABLES
    pc,        \* position inside load_uvvis_spc
    path,      \* the call's arguments: [exists, tz]
    blob,      \* the bytes read from the file (NoBlob before the read)
    meta,      \* section-parsed metadata, later the merged record
    mined,     \* the ASCII-cluster miner's contribution
    axis,      \* [wl0, wl1, step, n] of the axis builder
    best,      \* _find_y_values' best candidate (None or Some(record))
    searched,  \* the element types whose scan has run
    df,        \* the returned table (NoTable until returned)
    err        \* the exception that reached the caller (NoError if none)

(* State of the components that are modelled on their own, each under a    *)
(* specification of its own; a component that is not running is idle.       *)
VARIABLES
    filetime,  \* _first_filetime: [pc, window, i, out]
    slicer,    \* _slice_sections: [pc, txt, heads, i, out]
    rounding,  \* normal_round: [pc, value, decimals, result]
    plot,      \* a Plot: its _DataLimits, the axes' limits, the last call
    threads,   \* concurrent load_uvvis_spc calls: one record per call
    labeller,  \* set_custom_tick_labels: the axes' ticks, limits and labels, the call
    describer, \* MathStat.describe_table: the wrapped data, the table or the error
    capper,    \* _cap and _cap_broken_interpolate on the lines of a chunk
    miner,     \* _mine_ascii_cluster on a buffer of runs: window, tokens, fields
    iqr,       \* outliers_iqr: [pc, x, x_work, outs, passes]
    smoother,  \* moving_average: [pc, x, window_size, iterations, out]
    mathstat   \* a MathStat: its data, the last method call and its result

vars == <<pc, path, blob, meta, mined, axis, best, searched, df, err>>

others ==
    <<filetime, slicer, rounding, plot, threads, labeller, describer, capper, miner, iqr,
      smoother, mathstat>>

allvars == <<vars, others>>

Idle == [pc |-> "idle"]

----------------------------------------------------------------------------
(* Python's None and a present value. *)
None == <<>>
Some(x) == <<x>>
Get(o) == o[1]

(* dict helpers: a dict is a function from its keys. *)
EmptyDict == <<>>
Keys(d) == DOMAIN d
DictGet(d, k) == IF k \in DOMAIN d THEN d[k] ELSE None
Put(d, k, v) == [x \in (DOMAIN d) \cup {k} |-> IF x = k THEN v ELSE d[x]]
SetDefault(d, k, v) == IF k \in DOMAIN d THEN d ELSE Put(d, k, v)
Update(d, e) == [x \in (DOMAIN d) \cup (DOMAIN e) |-> IF x \in DOMAIN e THEN e[x] ELSE d[x]]
NotNoneItems(d) == [x \in {k \in DOMAIN d : d[k] # None} |-> d[x]]

----------------------------------------------------------------------------
(* Scales of the integer encodings. *)
WlUnitsPerNm == 10 * 1000
AbsUnitsPerOne == 1000 * 1000

RECURSIVE Pow10(_)
Pow10(k) == IF k = 0 THEN 1 ELSE 10 * Pow10(k - 1)

(* float(str) on a token matched by [0-9.]+ : characters are "0".."9", "." *)
DigitVal(c) ==
    CASE c = "0" -> 0 [] c = "1" -> 1 [] c = "2" -> 2 [] c = "3" -> 3 [] c = "4" -> 4
      [] c = "5" -> 5 [] c = "6" -> 6 [] c = "7" -> 7 [] c = "8" -> 8 [] OTHER -> 9

DotCount(tok) == Cardinality({i \in 1..Len(tok) : tok[i] = "."})
DigitCount(tok) == Cardinality({i \in 1..Len(tok) : tok[i] # "."})

(* float() accepts "400", "400.", ".5", "4.5"; it raises on ".", "1..5", "400.0.0" *)
FloatOk(tok) == DotCount(tok) <= 1 /\ DigitCount(tok) >= 1

RECURSIVE DigitsValue(_)
DigitsValue(s) ==
    IF Len(s) = 0 THEN 0
    ELSE 10 * DigitsValue(SubSeq(s, 1, Len(s) - 1)) + DigitVal(s[Len(s)])

DotPos(tok) ==
    IF DotCount(tok) = 0 THEN Len(tok) + 1
    ELSE CHOOSE i \in 1..Len(tok) : tok[i] = "."

(* the value of a well-formed token, in 1e-4 units *)
FloatValue(tok) ==
    LET d == DotPos(tok)
        ip == SubSeq(tok, 1, d - 1)
        fp == SubSeq(tok, d + 1, Len(tok))
    IN  DigitsValue(ip) * WlUnitsPerNm + (DigitsValue(fp) * WlUnitsPerNm) \div Pow10(Len(fp))

(* _to_float: float(m.group(1)) or None if not matched / not convertible *)
ToFloat(m) ==
    IF m = None THEN None
    ELSE IF FloatOk(Get(m)) THEN Some(FloatValue(Get(m))) ELSE None

(* round(): Python 3 rounds to nearest, ties to even; also numpy's rint *)
RoundHalfEven(num, den) ==
    LET q == num \div den
        r == num % den
    IN  IF 2 * r < den THEN q
        ELSE IF 2 * r > den THEN q + 1
        ELSE IF q % 2 = 0 THEN q ELSE q + 1

----------------------------------------------------------------------------
(* Sectioned metadata: _SECTION_NAMES and _SCHEMA *)
SECTION_NAMES ==
    { "Software Information", "Data Information", "Instrument Information",
      "Measurement Properties", "Instrument Properties", "Attachment Properties",
      "Operation", "Sample Preparation Properties" }

SCHEMA ==
    [ software_information |-> {"name", "version", "mode"},
      data_information |-> {"analyst", "comments", "datetime", "datetime_utc"},
      instrument_information |-> {"name", "type", "model_sn"},
      measurement_properties |->
          {"wl_start_nm", "wl_end_nm", "scan_speed", "sampling_interval_nm",
           "auto_sampling_interval", "scan_mode"},
      instrument_properties |->
          {"sr_exchange", "measuring_mode", "slit_width_nm", "light_source_change_nm"},
      attachment_properties |-> {"attachment"},
      operation |-> {"threshold", "points", "interpolate", "average"},
      sample_preparation_properties |->
          {"weight", "volume", "dilution", "path_length", "additional_information"},
      stored_data |-> {"data_block_offset", "data_dtype", "point_count"} ]

(* _ensure_schema: setdefault every section, then every key of it, to None *)
EnsureSchemaSectionsOnly(m) ==
    [s \in (DOMAIN m) \cup (DOMAIN SCHEMA) |-> IF s \in DOMAIN m THEN m[s] ELSE EmptyDict]

(* the same, reading the table schema: for section, keys in _SCHEMA.items() *)
EnsureSchemaOf(schema, m) ==
    [s \in (DOMAIN m) \cup (DOMAIN schema) |->
        LET d == IF s \in DOMAIN m THEN m[s] ELSE EmptyDict
        IN  IF s \in DOMAIN schema
            THEN [k \in (DOMAIN d) \cup schema[s] |-> IF k \in DOMAIN d THEN d[k] ELSE None]
            ELSE d]

EnsureSchema(m) == EnsureSchemaOf(SCHEMA, m)

(* the nine empty groups both _extract_sections and _mine_ascii_cluster start from *)
EmptyGroups == [s \in DOMAIN SCHEMA |-> EmptyDict]

----------------------------------------------------------------------------
(* Field capture.  The text of a buffer is described by the outcome of the  *)
(* captures made on it: text.secs are the headers _slice_sections found,    *)
(* text.labels says whether the labels of a chunk are followed by a value,  *)
(* text.rng and text.samp are the tokens the two numeric patterns of the    *)
(* Measurement Properties chunk captured (None on a regex miss).            *)

(* _cap: the captured string, or None *)
Cap(text, label) == IF text.labels THEN Some("value") ELSE None

(* _cap_num on a chunk whose number, if the label is there, is well formed *)
CapNum(text, label) == IF text.labels THEN ToFloat(Some(<<"2", ".", "0">>)) ELSE None

(* _to_int(re.search(r"Points:\D*([0-9]+)", ...)) *)
CapInt(text, label) == IF text.labels THEN Some(2) ELSE None

(* _empty_to_none(_cap(chunk, label, r"[^\r\n]*")) *)
EmptyToNone(s) == IF s = None \/ s = Some("") THEN None ELSE s

(* float(rng.group(i)) of _parse_measurement_props raises ValueError on a   *)
(* token float() rejects: the call is outside any try block                 *)
MeasurementPropsRaises(text) ==
    /\ text.rng # None
    /\ \/ ~FloatOk(Get(text.rng)[1])
       \/ ~FloatOk(Get(text.rng)[2])

ParseMeasurementProps(text) ==
    LET m1 == IF text.rng # None
              THEN Put(Put(EmptyDict, "wl_start_nm", Some(FloatValue(Get(text.rng)[1]))),
                       "wl_end_nm", Some(FloatValue(Get(text.rng)[2])))
              ELSE EmptyDict
        m2 == Put(m1, "scan_speed", Cap(text, "Scan Speed:"))
        m3 == Put(m2, "sampling_interval_nm", ToFloat(text.samp))
        auto == Cap(text, "Auto Sampling Interval:")
        m4 == IF auto # None THEN Put(m3, "auto_sampling_interval", auto) ELSE m3
    IN  Put(m4, "scan_mode", Cap(text, "Scan Mode:"))

ParseInstrumentProps(text) ==
    [ sr_exchange |-> Cap(text, "S/R Exchange:"),
      measuring_mode |-> Cap(text, "Measuring Mode:"),
      slit_width_nm |-> CapNum(text, "Slit Width:"),
      light_source_change_nm |-> CapNum(text, "Light Source Change Wavelength:") ]

ParseAttachmentProps(text) == [attachment |-> Cap(text, "Attachment:")]

ParseOperationProps(text) ==
    [ threshold |-> CapNum(text, "Threshold:"),
      points |-> CapInt(text, "Points:"),
      interpolate |-> Cap(text, "Interpolate:"),
      average |-> Cap(text, "Average:") ]

ParseSamplePrep(text) ==
    [ weight |-> EmptyToNone(Cap(text, "Weight:")),
      volume |-> EmptyToNone(Cap(text, "Volume:")),
      dilution |-> EmptyToNone(Cap(text, "Dilution:")),
      path_length |-> EmptyToNone(Cap(text, "Path Length:")),
      additional_information |-> EmptyToNone(Cap(text, "Additional Information:")) ]

(* _extract_sections, for a text on which no parser raises *)
ExtractSections(text) ==
    [s \in DOMAIN SCHEMA |->
        CASE s = "measurement_properties" /\ "Measurement Properties" \in text.secs ->
                ParseMeasurementProps(text)
          [] s = "instrument_properties" /\ "Instrument Properties" \in text.secs ->
                ParseInstrumentProps(text)
          [] s = "attachment_properties" /\ "Attachment Properties" \in text.secs ->
                ParseAttachmentProps(text)
          [] s = "operation" /\ "Operation" \in text.secs ->
                ParseOperationProps(text)
          [] s = "sample_preparation_properties" /\ "Sample Preparation Properties" \in text.secs ->
                ParseSamplePrep(text)
          [] s = "software_information" /\ "Software Information" \in text.secs ->
                LET mode == Cap(text, "Mode:")
                IN  [mode |-> IF mode # None THEN mode ELSE Some("Normal Mode")]
          [] OTHER -> EmptyDict]

ExtractSectionsRaises(text) ==
    "Measurement Properties" \in text.secs /\ MeasurementPropsRaises(text)

----------------------------------------------------------------------------
(* The ASCII cluster.  cluster.sig: the analyst/comment signature matched;  *)
(* cluster.uvprobe: a token equal to "UVProbe"; cluster.ver: a version      *)
(* token; cluster.inst: the instrument tokens; cluster.ft: the first        *)
(* plausible FILETIME among the bytes _first_filetime would be given, an    *)
(* instant counted in microseconds from the start of the day it falls in    *)
(* (None if those bytes hold no plausible FILETIME).                        *)

(* the UTC offset of a zone, in milliseconds, at the instants explored *)
UtcOffsetMs(zone) ==
    CASE zone = "Europe/Prague" -> 3600 * 1000
      [] zone = "Asia/Tokyo" -> 9 * 3600 * 1000
      [] OTHER -> 0

IsoLabelledUtc(t, zone) == [wall_ms |-> (t \div 1000) + UtcOffsetMs(zone), offset_ms |-> 0]

(* datetime.isoformat(timespec="milliseconds") of an aware datetime: the    *)
(* wall clock cut (not rounded) to milliseconds, and the UTC offset         *)
Iso(t, zone) == [wall_ms |-> (t \div 1000) + UtcOffsetMs(zone), offset_ms |-> UtcOffsetMs(zone)]

(* the instant an ISO-8601 string with offset denotes, in milliseconds *)
InstantMs(iso) == iso.wall_ms - iso.offset_ms

ApplyTzLocalOnly(t_utc, tz) ==
    IF t_utc = None THEN <<None, None>>
    ELSE IF tz = None THEN <<None, Some(Iso(Get(t_utc), "UTC"))>>
    ELSE <<Some(Iso(Get(t_utc), Get(tz))), None>>

(* _apply_tz: (iso_local, iso_utc) *)
ApplyTz(t_utc, tz) ==
    IF t_utc = None THEN <<None, None>>
    ELSE IF tz = None THEN <<None, Some(Iso(Get(t_utc), "UTC"))>>
    ELSE <<Some(Iso(Get(t_utc), Get(tz))), Some(Iso(Get(t_utc), "UTC"))>>

MinedInstantWithoutSignature(cluster) == cluster.ft

(* if m: t_utc = _first_filetime(blob[win_start:win_end]) *)
MinedInstant(cluster) == IF cluster.sig THEN cluster.ft ELSE None

MineAsciiClusterOverMode(cluster, tz) ==
    [s \in DOMAIN SCHEMA |->
        IF s = "software_information" THEN [mode |-> Some("mined")] ELSE EmptyDict]

MineAsciiCluster(cluster, tz) ==
    LET t_utc == MinedInstant(cluster)
        iso == ApplyTz(t_utc, tz)
        data0 == IF cluster.sig
                 THEN [analyst |-> Some("analyst"), comments |-> Some("comments")]
                 ELSE EmptyDict
        data1 == IF iso[1] # None
                 THEN Update(data0, [datetime |-> iso[1], datetime_utc |-> iso[2]])
                 ELSE IF iso[2] # None
                 THEN Update(data0, [datetime |-> iso[2], datetime_utc |-> iso[2]])
                 ELSE data0
        soft == IF cluster.uvprobe
                THEN [name |-> Some("UVProbe"),
                      version |-> IF cluster.ver THEN Some("2.42") ELSE None]
                ELSE EmptyDict
        inst == [model_sn |-> IF cluster.inst THEN Some("A11234567") ELSE None,
                 type |-> IF cluster.inst THEN Some("UV-2600 Series") ELSE None,
                 name |-> IF cluster.inst THEN Some("UV-2600 Series") ELSE None]
    IN  [s \in DOMAIN SCHEMA |->
            CASE s = "data_information" -> data1
              [] s = "software_information" -> soft
              [] s = "instrument_information" -> inst
              [] OTHER -> EmptyDict]

MergeMinedNoFallback(m, mi) ==
    [s \in DOMAIN m |->
        IF s \in DOMAIN mi THEN Update(m[s], NotNoneItems(mi[s])) ELSE m[s]]

(* load_uvvis_spc, step 2: meta[key].update(non-None mined items), then the *)
(* software mode fallback                                                   *)
MergeMined(m, mi) ==
    LET u == [s \in DOMAIN m |->
                 IF s \in DOMAIN mi THEN Update(m[s], NotNoneItems(mi[s])) ELSE m[s]]
    IN  [u EXCEPT !["software_information"] = SetDefault(@, "mode", Some("Normal Mode"))]

----------------------------------------------------------------------------
(* The axis builder of load_uvvis_spc. *)

(* float(mp.get(key) or dflt): None and 0.0 are both falsy *)
OrDefault(v, dflt) == IF v = None \/ v = Some(0) THEN dflt ELSE Get(v)

PointCountNoPlusOne(wl0, wl1, step) == RoundHalfEven(wl1 - wl0, step)

(* n = int(round((wl1 - wl0) / step)) + 1 *)
PointCount(wl0, wl1, step) == RoundHalfEven(wl1 - wl0, step) + 1

RangeInvalidOffByOne(n) == n <= 0

(* if n <= 1: raise ValueError *)
RangeInvalid(n) == n <= 1

AxisOf(mp) ==
    LET wl0 == OrDefault(DictGet(mp, "wl_start_nm"), 0)
        wl1 == OrDefault(DictGet(mp, "wl_end_nm"), 0)
        step == OrDefault(DictGet(mp, "sampling_interval_nm"), WlUnitsPerNm)
    IN  [wl0 |-> wl0, wl1 |-> wl1, step |-> step, n |-> PointCount(wl0, wl1, step)]

(* np.linspace(wl0, wl1, n)[i], i = 0..n-1, as a fraction <<num, den>> of 1e-4 nm *)
Linspace(wl0, wl1, n, i) == <<wl0 * (n - 1) + i * (wl1 - wl0), n - 1>>

(* np.round(v, 3): the nearest multiple of 1e-3 nm, ties to even; counts 1e-3 nm *)
Round3(frac) == RoundHalfEven(frac[1], frac[2] * (WlUnitsPerNm \div 1000))

WavelengthAxisNotReversed(wl0, wl1, n) ==
    [j \in 1..n |-> Round3(Linspace(wl0, wl1, n, j - 1))]

(* x = np.round(np.linspace(wl0, wl1, n), 3)[::-1] *)
WavelengthAxis(wl0, wl1, n) ==
    [j \in 1..n |-> Round3(Linspace(wl0, wl1, n, n - j))]

----------------------------------------------------------------------------
(* The numeric block locator, _find_y_values.                               *)
(* A reading is what np.frombuffer yields for one element: finite or not,   *)
(* and, if finite, its value in 1e-6 absorbance units.                      *)
Fin(v) == [fin |-> TRUE, val |-> v]
NaN == [fin |-> FALSE, val |-> 0]

Stride(dname) == IF dname = "float64" THEN 8 ELSE 4

(* bounds: Tuple[float, float] = (-10.0, 10.0) *)
Lo == -10 * AbsUnitsPerOne
Hi == 10 * AbsUnitsPerOne

(* np.std(arr) < 1e-6, the threshold in 1e-6 units *)
StdMin == 1

(* The element of type dname that starts at byte p.  A buffer holds a run   *)
(* of float64 values, run8 (the 8 bytes before the embedded array emb, then *)
(* emb, which starts at byte embAt) and a run of float32 values, run4, at   *)
(* byte k4; every other reading is garbage.                                 *)
RunRead(run, at, stride, p) ==
    IF p >= at /\ (p - at) % stride = 0 /\ (p - at) \div stride < Len(run)
    THEN run[(p - at) \div stride + 1]
    ELSE NaN

Read(b, dname, p) ==
    IF dname = "float64"
    THEN RunRead(b.run8, b.embAt - 8, 8, p)
    ELSE RunRead(b.run4, b.k4, 4, p)

WindowReversed(b, dname, start, n) ==
    [i \in 1..n |-> Read(b, dname, start + (n - i) * Stride(dname))]

(* np.frombuffer(blob[start:start + n*step], dtype=dtype, count=n) *)
Window(b, dname, start, n) ==
    [i \in 1..n |-> Read(b, dname, start + (i - 1) * Stride(dname))]

RECURSIVE SumSeq(_)
SumSeq(s) == IF Len(s) = 0 THEN 0 ELSE s[1] + SumSeq(Tail(s))

(* np.isfinite(arr).all() *)
AllFinite(arr) == \A i \in 1..Len(arr) : arr[i].fin

Values(arr) == [i \in 1..Len(arr) |-> arr[i].val]

(* arr.min() < lo or arr.max() > hi *)
OutOfBounds(xs) == \E i \in 1..Len(xs) : xs[i] < Lo \/ xs[i] > Hi

(* np.std(arr) < 1e-6: the variance (n*sum(x^2) - sum(x)^2) / n^2 below the square *)
StdTooSmall(xs) ==
    LET n == Len(xs)
        s1 == SumSeq(xs)
        s2 == SumSeq([i \in 1..n |-> xs[i] * xs[i]])
    IN  n * s2 - s1 * s1 < n * n * StdMin * StdMin

SurvivesWithoutStd(arr) ==
    /\ AllFinite(arr)
    /\ ~OutOfBounds(Values(arr))

(* the three gates of the scan loop, in the order the loop applies them *)
Survives(arr) ==
    /\ AllFinite(arr)
    /\ ~OutOfBounds(Values(arr))
    /\ ~StdTooSmall(Values(arr))

(* np.diff *)
Diff(xs) == [i \in 1..(Len(xs) - 1) |-> xs[i + 1] - xs[i]]

(* _roughness: mean squared second difference, inf when there is none *)
Roughness(xs) ==
    LET d2 == IF Len(xs) >= 1 THEN Diff(Diff(xs)) ELSE <<>>
    IN  IF Len(d2) = 0 THEN [inf |-> TRUE, num |-> 0, den |-> 1]
        ELSE [inf |-> FALSE, num |-> SumSeq([i \in 1..Len(d2) |-> d2[i] * d2[i]]),
              den |-> Len(d2)]

(* r1 < r2 on floats that may be inf *)
RLess(r1, r2) ==
    IF r1.inf THEN FALSE
    ELSE IF r2.inf THEN TRUE
    ELSE r1.num * r2.den < r2.num * r1.den

ReplacesOnTie(r, bst) == bst = None \/ ~RLess(Get(bst).r, r)

(* best is None or r < best[0] *)
Replaces(r, bst) == bst = None \/ RLess(r, Get(bst).r)

(* best = (r, start, arr.astype(np.float64), dname) *)
Candidate(b, dname, n, start) ==
    LET xs == Values(Window(b, dname, start, n))
    IN  Some([r |-> Roughness(xs), start |-> start, arr |-> xs, dname |-> dname])

ScanEndExclusive(b, dname, n) == b.L - n * Stride(dname)

(* range(0, L - n*step + 1): the first start the loop does not visit *)
ScanEnd(b, dname, n) == b.L - n * Stride(dname) + 1

(* for start in range(0, L - n*step + 1): the gates, then the comparison *)
RECURSIVE ScanFrom(_, _, _, _, _)
ScanFrom(b, dname, n, start, bst) ==
    IF start >= ScanEnd(b, dname, n) THEN bst
    ELSE IF ~Survives(Window(b, dname, start, n))
    THEN ScanFrom(b, dname, n, start + 1, bst)
    ELSE IF Replaces(Get(Candidate(b, dname, n, start)).r, bst)
    THEN ScanFrom(b, dname, n, start + 1, Candidate(b, dname, n, start))
    ELSE ScanFrom(b, dname, n, start + 1, bst)

ReturnsAfterLastOnly(bst, dname) == bst # None /\ dname = "float32"

(* if best is not None: return, after the scan of each element type *)
ReturnsAfter(bst, dname) == bst # None

----------------------------------------------------------------------------
(* What reaches the caller. *)
NoError == [type |-> "none", msg |-> ""]
ErrMissing == [type |-> "FileNotFoundError", msg |-> "File not found"]
ErrRangeAsBlock == [type |-> "ValueError", msg |-> "Could not locate Y data block."]
ErrRange == [type |-> "ValueError", msg |-> "Invalid wavelength range or sampling step."]
ErrBlock == [type |-> "ValueError", msg |-> "Could not locate Y data block."]
ErrFloat == [type |-> "ValueError", msg |-> "could not convert string to float"]

NoBlob == [L |-> 0]
NoTable == [returned |-> FALSE]
NoAxis == [wl0 |-> 0, wl1 |-> 0, step |-> 0, n |-> 0]

(* tz: Optional[object] = "Europe/Prague" *)
DefaultTz == Some("Europe/Prague")

----------------------------------------------------------------------------
(* The files and calls explored. *)
BufLen == 96
EmbedAt == 8
Run4At == 41

Calls ==
    { [exists |-> FALSE, tz |-> DefaultTz],
      [exists |-> TRUE, tz |-> DefaultTz],
      [exists |-> TRUE, tz |-> None],
      [exists |-> TRUE, tz |-> Some("Asia/Tokyo")] }

(* tokens the pattern [0-9.]+ can capture *)
T0 == <<"0">>
T1 == <<"1", ".", "0">>
T2 == <<"2">>
THalf == <<"0", ".", "5">>
T1Half == <<"1", ".", "5">>
T2Half == <<"2", ".", "5">>
T400 == <<"4", "0", "0", ".", "0">>
T800 == <<"8", "0", "0", ".", "0">>
T1e4 == <<"0", ".", "0", "0", "0", "1">>
T2e4 == <<"0", ".", "0", "0", "0", "2">>
T5e4 == <<"0", ".", "0", "0", "0", "5">>
T25e4 == <<"0", ".", "0", "0", "2", "5">>
T1e3 == <<"0", ".", "0", "0", "1">>
T21e4 == <<"0", ".", "0", "0", "2", "1">>
TBad3 == <<"4", "0", "0", ".", "0", ".", "0">>
TBad2 == <<"1", ".", ".", "5">>

Rng(a, b, samp) == [rng |-> Some(<<a, b>>), samp |-> samp]

(* captures of the Measurement Properties chunk: range tokens, interval token *)
RangeTexts ==
    { [rng |-> None, samp |-> None],
      [rng |-> None, samp |-> Some(T1)],
      Rng(T0, T0, None),
      Rng(T2, T0, Some(T1)),
      Rng(T0, T1, None),
      Rng(T0, T2, Some(T1)),
      Rng(T0, T2, Some(T0)),
      Rng(T0, T2, Some(TBad2)),
      Rng(T0, THalf, Some(T1)),
      Rng(T0, T1Half, Some(T1)),
      Rng(T0, T2Half, Some(T1)),
      Rng(T400, T800, Some(T1)),
      Rng(T0, T1e4, Some(T1e4)),
      Rng(T0, T2e4, Some(T1e4)),
      Rng(T5e4, T25e4, Some(T1e3)),
      Rng(T0, T21e4, Some(T1e3)),
      Rng(TBad3, T800, Some(T1)),
      Rng(T400, TBad2, None) }

SectionSets ==
    { {}, {"Measurement Properties"},
      {"Measurement Properties", "Software Information", "Operation"},
      SECTION_NAMES }

Clusters ==
    { [sig |-> FALSE, uvprobe |-> FALSE, ver |-> FALSE, inst |-> FALSE, ft |-> None],
      [sig |-> FALSE, uvprobe |-> TRUE, ver |-> TRUE, inst |-> TRUE, ft |-> None],
      [sig |-> TRUE, uvprobe |-> TRUE, ver |-> FALSE, inst |-> FALSE, ft |-> None],
      [sig |-> FALSE, uvprobe |-> FALSE, ver |-> FALSE, inst |-> FALSE, ft |-> Some(0)],
      [sig |-> TRUE, uvprobe |-> FALSE, ver |-> FALSE, inst |-> TRUE, ft |-> Some(0)],
      [sig |-> TRUE, uvprobe |-> TRUE, ver |-> TRUE, inst |-> TRUE, ft |-> Some(1500999)] }

Texts ==
    { [secs |-> ss, labels |-> lb, rng |-> rt.rng, samp |-> rt.samp] :
        ss \in SectionSets, lb \in BOOLEAN, rt \in RangeTexts }

(* readings: not finite, above the bounds, and small in-bounds values *)
Val64 == {NaN, Fin(Hi + 1), Fin(0), Fin(1), Fin(2), Fin(4), Fin(6)}
Val32 == {Fin(Lo - 1), Fin(0), Fin(2), Fin(4)}

Numeric(emb, atEnd, pre, run4, k4) ==
    [emb |-> emb, atEnd |-> atEnd, pre |-> pre, run4 |-> run4, k4 |-> k4]

PlainNumeric == Numeric(<<Fin(0), Fin(2), Fin(4)>>, FALSE, NaN, <<>>, Run4At)

Arrays64 == [1..3 -> Val64]

(* a float64 array embedded near the start, after any 8 bytes, or at the    *)
(* very end of the buffer, after garbage                                    *)
Numerics64 ==
    { Numeric(a, FALSE, pr, <<>>, Run4At) : a \in Arrays64, pr \in Val64 }
    \cup { Numeric(a, TRUE, NaN, <<>>, Run4At) : a \in Arrays64 }

(* a run of float32 values, with no or one rough float64 candidate *)
Numerics32 ==
    { Numeric(a, FALSE, NaN, r, k) :
        a \in {<<NaN, NaN, NaN>>, <<Fin(0), Fin(4), Fin(0)>>},
        r \in [1..4 -> Val32], k \in {Run4At, BufLen - 16} }

PlainText ==
    { [secs |-> {"Measurement Properties"}, labels |-> FALSE, rng |-> rt.rng, samp |-> rt.samp] :
        rt \in {Rng(T0, T1, None), Rng(T0, T2, Some(T1))} }

PlainCluster == [sig |-> FALSE, uvprobe |-> FALSE, ver |-> FALSE, inst |-> FALSE, ft |-> None]

MakeBlob(text, cluster, num) ==
    [ L |-> BufLen, text |-> text, cluster |-> cluster,
      emb |-> num.emb,
      embAt |-> IF num.atEnd THEN BufLen - 8 * Len(num.emb) ELSE EmbedAt,
      run8 |-> <<num.pre>> \o num.emb, run4 |-> num.run4, k4 |-> num.k4 ]

(* every text with one plain numeric content; for a call that leaves tz to  *)
(* its default, every numeric content as well, with a plain text            *)
Blobs(call) ==
    { MakeBlob(t, c, PlainNumeric) : t \in Texts, c \in Clusters }
    \cup
    IF call.tz = DefaultTz
    THEN { MakeBlob(t, PlainCluster, nm) : t \in PlainText, nm \in Numerics64 \cup Numerics32 }
    ELSE {}

----------------------------------------------------------------------------
(* load_uvvis_spc, one action per step of the call. *)

Init ==
    /\ pc = "call"
    /\ path \in Calls
    /\ blob = NoBlob
    /\ meta = EmptyGroups
    /\ mined = EmptyGroups
    /\ axis = NoAxis
    /\ best = None
    /\ searched = {}
    /\ df = NoTable
    /\ err = NoError
    /\ filetime = Idle
    /\ slicer = Idle
    /\ rounding = Idle
    /\ plot = Idle
    /\ threads = Idle
    /\ labeller = Idle
    /\ describer = Idle
    /\ capper = Idle
    /\ miner = Idle
    /\ iqr = Idle
    /\ smoother = Idle
    /\ mathstat = Idle

Raise(e) ==
    /\ pc' = "raised"
    /\ err' = e

(* p = Path(path); if not p.exists(): raise FileNotFoundError *)
CheckPath ==
    /\ pc = "call"
    /\ IF path.exists
       THEN pc' = "read" /\ err' = err
       ELSE Raise(ErrMissing)
    /\ UNCHANGED <<path, blob, meta, mined, axis, best, searched, df>>
    /\ UNCHANGED others

(* blob = _read_bytes(p) *)
ReadBytes ==
    /\ pc = "read"
    /\ blob' \in Blobs(path)
    /\ pc' = "extract"
    /\ UNCHANGED <<path, meta, mined, axis, best, searched, df, err>>
    /\ UNCHANGED others

(* meta = _extract_sections(blob) *)
Extract ==
    /\ pc = "extract"
    /\ IF ExtractSectionsRaises(blob.text)
       THEN Raise(ErrFloat) /\ meta' = meta
       ELSE /\ meta' = ExtractSections(blob.text)
            /\ pc' = "mine"
            /\ err' = err
    /\ UNCHANGED <<path, blob, mined, axis, best, searched, df>>
    /\ UNCHANGED others

(* mined = _mine_ascii_cluster(blob, tz=tz) *)
Mine ==
    /\ pc = "mine"
    /\ mined' = MineAsciiCluster(blob.cluster, path.tz)
    /\ pc' = "merge"
    /\ UNCHANGED <<path, blob, meta, axis, best, searched, df, err>>
    /\ UNCHANGED others

(* the update loop over mined and the software mode fallback *)
Merge ==
    /\ pc = "merge"
    /\ meta' = MergeMined(meta, mined)
    /\ pc' = "axis"
    /\ UNCHANGED <<path, blob, mined, axis, best, searched, df, err>>
    /\ UNCHANGED others

(* wl0, wl1, step, n; if n <= 1: raise ValueError *)
BuildAxis ==
    /\ pc = "axis"
    /\ axis' = AxisOf(meta["measurement_properties"])
    /\ IF RangeInvalid(axis'.n)
       THEN Raise(ErrRange)
       ELSE pc' = "scan_float64" /\ err' = err
    /\ UNCHANGED <<path, blob, meta, mined, best, searched, df>>
    /\ UNCHANGED others

(* _find_y_values: the float64 pass of the outer loop *)
ScanFloat64 ==
    /\ pc = "scan_float64"
    /\ best' = ScanFrom(blob, "float64", axis.n, 0, best)
    /\ searched' = searched \cup {"float64"}
    /\ pc' = IF ReturnsAfter(best', "float64") THEN "assemble" ELSE "scan_float32"
    /\ UNCHANGED <<path, blob, meta, mined, axis, df, err>>
    /\ UNCHANGED others

(* _find_y_values: the float32 pass, and the raise after the loop *)
ScanFloat32 ==
    /\ pc = "scan_float32"
    /\ best' = ScanFrom(blob, "float32", axis.n, 0, best)
    /\ searched' = searched \cup {"float32"}
    /\ IF ReturnsAfter(best', "float32")
       THEN pc' = "assemble" /\ err' = err
       ELSE Raise(ErrBlock)
    /\ UNCHANGED <<path, blob, meta, mined, axis, df>>
    /\ UNCHANGED others

(* the table, the stored_data group, _ensure_schema, df.attrs.update(meta) *)
Assemble ==
    /\ pc = "assemble"
    /\ LET y == Get(best)
           stored == [data_block_offset |-> Some(y.start),
                      data_dtype |-> Some(y.dname),
                      point_count |-> Some(axis.n)]
           m == [meta EXCEPT !["stored_data"] = Update(@, stored)]
       IN  /\ meta' = EnsureSchema(m)
           /\ df' = [returned |-> TRUE,
                     wavelength_nm |-> WavelengthAxis(axis.wl0, axis.wl1, axis.n),
                     absorbance |-> y.arr,
                     attrs |-> meta']
    /\ pc' = "done"
    /\ UNCHANGED <<path, blob, mined, axis, best, searched, err>>
    /\ UNCHANGED others

Next ==
    \/ CheckPath
    \/ ReadBytes
    \/ Extract
    \/ Mine
    \/ Merge
    \/ BuildAxis
    \/ ScanFloat64
    \/ ScanFloat32
    \/ Assemble

Spec == Init /\ [][Next]_allvars

----------------------------------------------------------------------------
(* Vocabulary of the properties. *)
Terminal == pc \in {"done", "raised"}
WasRead == blob # NoBlob
AxisBuilt == axis # NoAxis
DTypes == {"float64", "float32"}

(* the byte offsets a window of n elements of type dname can start at *)
Offsets(b, dname, n) == 0..(b.L - n * Stride(dname))

Survivors(b, dname, n) == {s \in Offsets(b, dname, n) : Survives(Window(b, dname, s, n))}

RoughAt(b, dname, n, s) == Roughness(Values(Window(b, dname, s, n)))

(* no Wavelength Range text the parser recognizes *)
NoRangeText(b) == "Measurement Properties" \notin b.text.secs \/ b.text.rng = None

Stored(k) == Get(df.attrs["stored_data"][k])

----------------------------------------------------------------------------
(* C1: every returned table carries exactly the nine groups of the schema,  *)
(* each with exactly the schema's keys, and a key that neither the section  *)
(* parsers nor the miner nor the assembler recovered is None.               *)
SchemaComplete ==
    pc = "done" =>
        /\ DOMAIN df.attrs = DOMAIN SCHEMA
        /\ \A s \in DOMAIN SCHEMA : DOMAIN df.attrs[s] = SCHEMA[s]
        /\ \A s \in (DOMAIN SCHEMA) \ {"stored_data"} : \A k \in SCHEMA[s] :
              ( /\ DictGet(ExtractSections(blob.text)[s], k) = None
                /\ DictGet(mined[s], k) = None
                /\ ~(s = "software_information" /\ k = "mode") )
              => df.attrs[s][k] = None

(* C1 witness: a table returned for a buffer with a bare Measurement        *)
(* Properties section and no signature: analyst was never recovered.        *)
SchemaCompleteWitness ==
    /\ pc = "done"
    /\ blob.text.secs = {"Measurement Properties"}
    /\ ~blob.text.labels
    /\ ~blob.cluster.sig
    /\ df.attrs["data_information"]["analyst"] = None
    /\ df.attrs["operation"]["points"] = None

(* C2: without recognizable range text, or with n <= 1, the call raises the *)
(* invalid-range error and no scan of _find_y_values has run; a scan runs   *)
(* only with range text and n >= 2.                                         *)
NoRangeNoSearch ==
    /\ (Terminal /\ WasRead /\ (NoRangeText(blob) \/ (AxisBuilt /\ axis.n <= 1)))
          => (pc = "raised" /\ err = ErrRange /\ searched = {})
    /\ (searched # {}) => (AxisBuilt /\ axis.n >= 2 /\ ~NoRangeText(blob))

(* C2 witness: a buffer without range text has raised the range error *)
NoRangeNoSearchWitness ==
    /\ pc = "raised"
    /\ err = ErrRange
    /\ WasRead
    /\ NoRangeText(blob)
    /\ searched = {}

(* C3: a table is returned only for an existing file, n >= 2 and a window   *)
(* that passed the gates, and it has n >= 2 rows; a missing file, a missing *)
(* or degenerate range and a buffer without a surviving window each raise   *)
(* their own error, and the three errors differ.                            *)
FatalCasesDistinct ==
    /\ pc = "done" =>
          /\ path.exists /\ axis.n >= 2
          /\ \E dn \in DTypes : Survivors(blob, dn, axis.n) # {}
          /\ Len(df.absorbance) = axis.n /\ Len(df.wavelength_nm) = axis.n
    /\ (Terminal /\ ~path.exists) => (pc = "raised" /\ err = ErrMissing)
    /\ (Terminal /\ WasRead /\ (NoRangeText(blob) \/ (AxisBuilt /\ axis.n <= 1)))
          => (pc = "raised" /\ err = ErrRange)
    /\ (Terminal /\ AxisBuilt /\ axis.n >= 2
          /\ \A dn \in DTypes : Survivors(blob, dn, axis.n) = {})
          => (pc = "raised" /\ err = ErrBlock)
    /\ ErrMissing # ErrRange /\ ErrRange # ErrBlock /\ ErrMissing # ErrBlock
    /\ NoError \notin {ErrMissing, ErrRange, ErrBlock}

(* C3 witness: the buffer is shorter than n float32 elements *)
FatalCasesDistinctWitness ==
    /\ pc = "raised"
    /\ err = ErrBlock
    /\ blob.L < axis.n * 4
    /\ searched = DTypes

(* C4: a field that cannot be parsed is recorded as absent and never aborts *)
(* the call: the only errors that reach the caller are the three structural *)
(* ones.                                                                    *)
FieldFailureNeverAborts ==
    pc = "raised" => err \in {ErrMissing, ErrRange, ErrBlock}

(* C5: the returned block is float64 exactly when some float64 window, at   *)
(* any byte offset, passes the gates, whatever the float32 candidates.      *)
DtypePriority ==
    pc = "done" =>
        (Stored("data_dtype") = "float64" <=> Survivors(blob, "float64", axis.n) # {})

(* C5 witness: float64 was returned although a float32 window that passes   *)
(* the gates is smoother than every float64 window.                         *)
DtypePriorityWitness ==
    /\ pc = "done"
    /\ Stored("data_dtype") = "float64"
    /\ \E s \in Survivors(blob, "float32", axis.n) :
          RLess(RoughAt(blob, "float32", axis.n, s), Roughness(df.absorbance))

(* C6: within the returned element type the selected offset has the least   *)
(* roughness of all surviving windows at 0 <= s <= L - n*stride, and the    *)
(* least offset among those of least roughness.                             *)
MinRoughnessFirstOffset ==
    pc = "done" =>
        LET dn == Stored("data_dtype")
            at == Stored("data_block_offset")
            r == Roughness(df.absorbance)
        IN  /\ at \in Survivors(blob, dn, axis.n)
            /\ \A s \in Survivors(blob, dn, axis.n) :
                  /\ ~RLess(RoughAt(blob, dn, axis.n, s), r)
                  /\ ~RLess(r, RoughAt(blob, dn, axis.n, s)) => at <= s

(* C6 witness: n = 2, every roughness infinite, several surviving windows *)
MinRoughnessFirstOffsetWitness ==
    /\ pc = "done"
    /\ axis.n = 2
    /\ Roughness(df.absorbance).inf
    /\ Cardinality(Survivors(blob, Stored("data_dtype"), axis.n)) >= 2

(* the embedded array of a buffer built around one *)
EmbValues(b) == Values(b.emb)
NonConstant(xs) == \E i, j \in 1..Len(xs) : xs[i] # xs[j]
Smooth(xs) == ~Roughness(xs).inf /\ Roughness(xs).num = 0
EmbeddedConsistent ==
    /\ Terminal /\ WasRead /\ AxisBuilt
    /\ axis.n = Len(blob.emb)
    /\ AllFinite(blob.emb)
    /\ ~OutOfBounds(EmbValues(blob))
    /\ NonConstant(EmbValues(blob))
    /\ ~StdTooSmall(EmbValues(blob))
RecoversEmbedded ==
    /\ pc = "done"
    /\ df.absorbance = EmbValues(blob)
    /\ Stored("data_block_offset") = blob.embAt
    /\ Stored("data_dtype") = "float64"

(* C7, as claimed: every buffer that embeds a finite, in-bounds,            *)
(* non-constant, smooth float64 array at byte k, with text that yields its  *)
(* length, decodes to that array at offset k with dtype float64.            *)
(* (Non-constant is read as passing the standard deviation gate, smooth as  *)
(* roughness zero: the readings most favourable to the claim.)              *)
RoundTripAnyBuffer ==
    (EmbeddedConsistent /\ Smooth(EmbValues(blob))) => RecoversEmbedded

(* another float64 window that beats the embedded array: lower roughness,   *)
(* or the same roughness at a lower offset                                  *)
Beaten(b, n) ==
    \E s \in Survivors(b, "float64", n) \ {b.embAt} :
        \/ RLess(RoughAt(b, "float64", n, s), Roughness(EmbValues(b)))
        \/ /\ s < b.embAt
           /\ ~RLess(Roughness(EmbValues(b)), RoughAt(b, "float64", n, s))

(* C7, amended: the embedded array (finite, in bounds, standard deviation   *)
(* at least 1e-6) is recovered, with its offset and dtype float64, provided *)
(* no other float64 window of the buffer passes the gates with a lower      *)
(* roughness, or with the same roughness at a lower offset.                 *)
RoundTripUnbeaten ==
    (EmbeddedConsistent /\ ~Beaten(blob, axis.n)) => RecoversEmbedded

(* C7 witness: the array at the very end of the buffer is recovered *)
RoundTripUnbeatenWitness ==
    /\ EmbeddedConsistent
    /\ RecoversEmbedded
    /\ blob.embAt = blob.L - 8 * axis.n
    /\ Smooth(df.absorbance)

(* the recovered start, end and step, with the defaults of the axis builder *)
RecoveredStart == OrDefault(DictGet(meta["measurement_properties"], "wl_start_nm"), 0)
RecoveredEnd == OrDefault(DictGet(meta["measurement_properties"], "wl_end_nm"), 0)
RecoveredStep ==
    OrDefault(DictGet(meta["measurement_properties"], "sampling_interval_nm"), WlUnitsPerNm)

Abs(x) == IF x < 0 THEN -x ELSE x

(* C8: n - 1 is the integer nearest to (wl_end - wl_start) / step (the even *)
(* one of two equally near), step being the recovered sampling interval or  *)
(* 1.0 when it is absent or zero; 400.0, 800.0 and 1.0 give n = 401.        *)
PointCountFormula ==
    AxisBuilt =>
        LET d == RecoveredEnd - RecoveredStart
            k == axis.n - 1
        IN  /\ 2 * Abs(k * RecoveredStep - d) <= RecoveredStep
            /\ (2 * Abs(k * RecoveredStep - d) = RecoveredStep) => (k % 2 = 0)
            /\ ( /\ RecoveredStart = 400 * WlUnitsPerNm
                 /\ RecoveredEnd = 800 * WlUnitsPerNm
                 /\ RecoveredStep = WlUnitsPerNm ) => axis.n = 401

(* C8 witness: the range 400.0 to 800.0 with interval 1.0 was parsed *)
PointCountFormulaWitness ==
    /\ AxisBuilt
    /\ blob.text.rng = Some(<<T400, T800>>)
    /\ blob.text.samp = Some(T1)
    /\ axis.n = 401

(* C9, as claimed: the returned wavelength column is strictly descending *)
AxisStrictlyDescending ==
    pc = "done" =>
        \A i \in 1..(Len(df.wavelength_nm) - 1) : df.wavelength_nm[i] > df.wavelength_nm[i + 1]

(* consecutive axis points are more than 0.001 nm apart *)
SpacingAboveRounding == axis.wl1 - axis.wl0 > (axis.n - 1) * (WlUnitsPerNm \div 1000)

(* C9, amended: the column never ascends and runs from the rounded end to   *)
(* the rounded start; it is strictly descending whenever consecutive axis   *)
(* points, (wl_end - wl_start) / (n - 1), are more than 0.001 nm apart.     *)
AxisDescending ==
    pc = "done" =>
        LET x == df.wavelength_nm
        IN  /\ \A i \in 1..(Len(x) - 1) : x[i] >= x[i + 1]
            /\ x[1] = Round3(<<axis.wl1, 1>>)
            /\ x[Len(x)] = Round3(<<axis.wl0, 1>>)
            /\ SpacingAboveRounding => \A i \in 1..(Len(x) - 1) : x[i] > x[i + 1]

(* C9 witness: a spacing just above the rounding, 0.00105 nm *)
AxisDescendingWitness ==
    /\ pc = "done"
    /\ SpacingAboveRounding
    /\ 2 * (axis.wl1 - axis.wl0) < 3 * (axis.n - 1) * (WlUnitsPerNm \div 1000)
    /\ \A i \in 1..(Len(df.wavelength_nm) - 1) : df.wavelength_nm[i] > df.wavelength_nm[i + 1]

(* C10: both columns have n = point_count rows and absorbance holds the     *)
(* located block's elements in their byte order.                            *)
TableShape ==
    pc = "done" =>
        /\ Len(df.wavelength_nm) = axis.n
        /\ Len(df.absorbance) = axis.n
        /\ Stored("point_count") = axis.n
        /\ \A i \in 1..axis.n :
              LET e == Read(blob, Stored("data_dtype"),
                            Stored("data_block_offset") + (i - 1) * Stride(Stored("data_dtype")))
              IN  e.fin /\ df.absorbance[i] = e.val

(* C10 witness: a float32 block whose first and last values differ *)
TableShapeWitness ==
    /\ pc = "done"
    /\ Stored("data_dtype") = "float32"
    /\ axis.n = 3
    /\ df.absorbance[1] # df.absorbance[3]
    /\ df.wavelength_nm[1] > df.wavelength_nm[3]

----------------------------------------------------------------------------
(* the population variance of xs is at least StdMin squared:                *)
(* sum((n*x - sum(xs))^2) >= n^3 * StdMin^2                                  *)
SpreadAtLeastStdMin(xs) ==
    LET n == Len(xs)
        s1 == SumSeq(xs)
    IN  SumSeq([i \in 1..n |-> (n * xs[i] - s1) * (n * xs[i] - s1)]) >= n * n * n * StdMin * StdMin

(* C11: the block the locator holds as best, and the block a returned table *)
(* carries, is a window of the buffer whose every reading is finite, whose  *)
(* values lie within [-10, 10] and whose standard deviation is at least     *)
(* 1e-6; a window failing a gate is never selected, however smooth.         *)
SelectedPassesGates ==
    best # None =>
        LET y == Get(best)
            w == Window(blob, y.dname, y.start, axis.n)
        IN  /\ y.start \in Offsets(blob, y.dname, axis.n)
            /\ \A i \in 1..axis.n : w[i].fin /\ w[i].val = y.arr[i]
            /\ \A i \in 1..axis.n : y.arr[i] >= Lo /\ y.arr[i] <= Hi
            /\ SpreadAtLeastStdMin(y.arr)
            /\ (pc = "done" => df.absorbance = y.arr)

(* C11 witness: a table was returned although a finite window that fails a  *)
(* gate is smoother than the returned block.                                *)
SelectedPassesGatesWitness ==
    /\ pc = "done"
    /\ \E s \in Offsets(blob, Get(best).dname, axis.n) :
          /\ AllFinite(Window(blob, Get(best).dname, s, axis.n))
          /\ ~Survives(Window(blob, Get(best).dname, s, axis.n))
          /\ RLess(RoughAt(blob, Get(best).dname, axis.n, s), Get(best).r)

----------------------------------------------------------------------------
(* what the section parsers recovered from the buffer of this call *)
SectionParsed == ExtractSections(blob.text)

(* C12: in the record of a returned table, every key for which a section    *)
(* parser recovered a value holds exactly that value, and a key holds a     *)
(* mined value only where the section parsers recovered none; there the     *)
(* mined value fills the gap.                                               *)
MergePrecedence ==
    pc = "done" =>
        \A s \in (DOMAIN SCHEMA) \ {"stored_data"} : \A k \in SCHEMA[s] :
            /\ DictGet(SectionParsed[s], k) # None
                  => df.attrs[s][k] = DictGet(SectionParsed[s], k)
            /\ (DictGet(SectionParsed[s], k) = None /\ DictGet(mined[s], k) # None)
                  => df.attrs[s][k] = DictGet(mined[s], k)

(* C12 witness: the Software Information section gave the mode, the cluster *)
(* gave the software name; the returned record holds both.                  *)
MergePrecedenceWitness ==
    /\ pc = "done"
    /\ "Software Information" \in blob.text.secs
    /\ blob.text.labels
    /\ blob.cluster.uvprobe
    /\ df.attrs["software_information"]["mode"] = SectionParsed["software_information"]["mode"]
    /\ df.attrs["software_information"]["name"] = Some("UVProbe")
    /\ df.attrs["measurement_properties"]["scan_speed"] = Some("value")

----------------------------------------------------------------------------
(* the call of _apply_tz the miner made: on the instant found near the      *)
(* signature and the zone of the call                                       *)
Projected == ApplyTz(MinedInstant(blob.cluster), path.tz)
Projects == WasRead /\ blob.cluster.sig /\ mined # EmptyGroups

(* iso is the UTC rendering of instant t (microseconds), cut to milliseconds *)
IsUtcRendering(iso, t) ==
    /\ iso.offset_ms = 0
    /\ iso.wall_ms * 1000 <= t
    /\ t < iso.wall_ms * 1000 + 1000

----------------------------------------------------------------------------
(* _mine_ascii_cluster has returned in this call *)
MinerReturned ==
    \/ pc \in {"merge", "axis", "scan_float64", "scan_float32", "assemble", "done"}
    \/ pc = "raised" /\ err \in {ErrRange, ErrBlock}

MinedField(s, k) == DictGet(mined[s], k)

DefaultKeepsUtc ==
    (pc = "done" /\ path.tz = DefaultTz /\ MinedInstant(blob.cluster) # None) =>
        df.attrs["data_information"]["datetime"] = df.attrs["data_information"]["datetime_utc"]

----------------------------------------------------------------------------
(* load_uvvis_spc is not running: the state in which a component is         *)
(* explored on its own.                                                     *)
MainIdle ==
    /\ pc = "idle"
    /\ path = [exists |-> FALSE, tz |-> None]
    /\ blob = NoBlob
    /\ meta = EmptyGroups
    /\ mined = EmptyGroups
    /\ axis = NoAxis
    /\ best = None
    /\ searched = {}
    /\ df = NoTable
    /\ err = NoError

Max(a, b) == IF a >= b THEN a ELSE b
Min(a, b) == IF a <= b THEN a ELSE b
Least(S) == CHOOSE x \in S : \A y \in S : x <= y

----------------------------------------------------------------------------
(* _first_filetime.  A 64-bit FILETIME is written in three limbs: whole     *)
(* days since 1601-01-01, milliseconds within the day, and 100 ns ticks     *)
(* within the millisecond.  A window is its length W and, for each offset   *)
(* 0..W-8, the integer struct.unpack_from("<Q", window, offset) reads.      *)
Ticks(days, ms, ticks) == [days |-> days, ms |-> ms, ticks |-> ticks]

DaysPer4Years == 4 * 365 + 1
DaysPer100Years == 25 * DaysPer4Years - 1
DaysPer400Years == 4 * DaysPer100Years + 1

(* the Gregorian year of the day that lies `days` days after 1601-01-01 *)
YearOf(days) ==
    LET n400 == days \div DaysPer400Years
        r400 == days % DaysPer400Years
        n100 == Min(r400 \div DaysPer100Years, 3)
        r100 == r400 - n100 * DaysPer100Years
        n4 == r100 \div DaysPer4Years
        r4 == r100 % DaysPer4Years
        n1 == Min(r4 \div 365, 3)
    IN  1601 + 400 * n400 + 100 * n100 + 4 * n4 + n1

(* 10000-01-01, the first day datetime cannot hold: 8399 years after 1601 *)
FirstDayOutOfRange == 20 * DaysPer400Years + 3 * DaysPer100Years + 24 * DaysPer4Years + 3 * 365

(* base + dt.timedelta(microseconds=val / 10) raises OverflowError *)
Overflows(val) == val.days >= FirstDayOutOfRange

(* base + dt.timedelta(microseconds=val / 10): days after 1601-01-01,       *)
(* milliseconds within the day, microseconds within the millisecond.  The   *)
(* readings explored hold a multiple of 20 ticks, for which the float       *)
(* division val / 10 is exact.                                              *)
FiletimeDecode(val) == [days |-> val.days, ms |-> val.ms, us |-> val.ticks \div 10]

(* if 1990 <= time_date.year <= 2100 *)
YearAccepted(val) == 1990 <= YearOf(val.days) /\ YearOf(val.days) <= 2100

(* range(0, max(0, len(window) - 8)): the first offset the loop does not visit *)
FiletimeScanStop(W) == Max(0, W - 8)

MaxWindow == 11

(* 1700-01-01; the last millisecond of 1989; 1990-01-01; 2024-01-01 with a  *)
(* fraction of a millisecond; 2101-01-01; 2^64 - 1 ticks, which overflows   *)
FiletimeReadings ==
    { Ticks(24 * DaysPer4Years + 3 * 365, 0, 0),
      Ticks(3 * DaysPer100Years + 22 * DaysPer4Years + 365 - 1, 86400 * 1000 - 1, 9980),
      Ticks(3 * DaysPer100Years + 22 * DaysPer4Years + 365, 0, 0),
      Ticks(DaysPer400Years + 5 * DaysPer4Years + 3 * 365, 1500, 20),
      Ticks(DaysPer400Years + DaysPer100Years, 0, 0),
      Ticks(21350398, 20170955, 1615) }

Windows ==
    { [W |-> w, vals |-> <<>>] : w \in {0, 7} }
    \cup UNION { { [W |-> w, vals |-> v] : v \in [1..(w - 7) -> FiletimeReadings] } : w \in 8..MaxWindow }

exceptFiletime ==
    <<vars, slicer, rounding, plot, threads, labeller, describer,
      capper, miner, iqr, smoother, mathstat>>

FiletimeInit ==
    /\ MainIdle
    /\ filetime \in { [pc |-> "loop", window |-> w, i |-> 0, out |-> None] : w \in Windows }
    /\ slicer = Idle
    /\ rounding = Idle
    /\ plot = Idle
    /\ threads = Idle
    /\ labeller = Idle
    /\ describer = Idle
    /\ capper = Idle
    /\ miner = Idle
    /\ iqr = Idle
    /\ smoother = Idle
    /\ mathstat = Idle

(* val = struct.unpack_from("<Q", window, i)[0] *)
FiletimeAt(window, i) == window.vals[i + 1]

FiletimeInLoop == filetime.pc = "loop" /\ filetime.i < FiletimeScanStop(filetime.window.W)

(* except OverflowError: continue *)
FiletimeOverflow ==
    /\ FiletimeInLoop
    /\ Overflows(FiletimeAt(filetime.window, filetime.i))
    /\ filetime' = [filetime EXCEPT !.i = @ + 1]
    /\ UNCHANGED exceptFiletime

(* the year is outside [1990, 2100]: next offset *)
FiletimeRejected ==
    /\ FiletimeInLoop
    /\ ~Overflows(FiletimeAt(filetime.window, filetime.i))
    /\ ~YearAccepted(FiletimeAt(filetime.window, filetime.i))
    /\ filetime' = [filetime EXCEPT !.i = @ + 1]
    /\ UNCHANGED exceptFiletime

(* return time_date *)
FiletimeFound ==
    /\ FiletimeInLoop
    /\ ~Overflows(FiletimeAt(filetime.window, filetime.i))
    /\ YearAccepted(FiletimeAt(filetime.window, filetime.i))
    /\ filetime' = [filetime EXCEPT !.pc = "returned",
                                     !.out = Some(FiletimeDecode(FiletimeAt(filetime.window, filetime.i)))]
    /\ UNCHANGED exceptFiletime

(* the loop ended: return None *)
FiletimeExhausted ==
    /\ filetime.pc = "loop"
    /\ filetime.i >= FiletimeScanStop(filetime.window.W)
    /\ filetime' = [filetime EXCEPT !.pc = "returned", !.out = None]
    /\ UNCHANGED exceptFiletime

FiletimeNext ==
    \/ FiletimeOverflow
    \/ FiletimeRejected
    \/ FiletimeFound
    \/ FiletimeExhausted

SpecFiletime == FiletimeInit /\ [][FiletimeNext]_allvars

(* the offsets 0..W-8 of a window whose 8 bytes decode to a year in [1990, 2100] *)
PlausibleOffsets(window) ==
    { i \in 0..(window.W - 8) :
        ~Overflows(FiletimeAt(window, i)) /\ YearAccepted(FiletimeAt(window, i)) }

(* C13, as claimed: the result is the decoding of the 8 bytes at the lowest *)
(* offset i, 0 <= i <= W - 8, whose year lies in [1990, 2100]; None only if *)
(* no offset in 0..W-8 qualifies.                                           *)
FirstFiletimeOfWindow ==
    filetime.pc = "returned" =>
        IF PlausibleOffsets(filetime.window) = {}
        THEN filetime.out = None
        ELSE filetime.out =
                Some(FiletimeDecode(FiletimeAt(filetime.window, Least(PlausibleOffsets(filetime.window)))))

----------------------------------------------------------------------------
(* _slice_sections.  The text is a sequence of pieces: a bracketed name     *)
(* "[name]" as the pattern \[([A-Za-z ]+)] matches it (pad spaces on each   *)
(* side of the name), a printable character, or a control character.  A     *)
(* piece has a length in characters, so that positions are character        *)
(* positions.                                                               *)
Bracket(name, pad, len) == [kind |-> "bracket", name |-> name, pad |-> pad, len |-> len]
Char == [kind |-> "char", name |-> "x", pad |-> 0, len |-> 1]
Ctl == [kind |-> "ctl", name |-> "", pad |-> 0, len |-> 1]
Newline == [kind |-> "char", name |-> "nl", pad |-> 0, len |-> 1]

(* m.start() of the piece k of txt, and len(txt) *)
StartOf(txt, k) == SumSeq([j \in 1..(k - 1) |-> txt[j].len])
TextLen(txt) == StartOf(txt, Len(txt) + 1)

(* name = m.group(1).strip(); if name in _SECTION_NAMES *)
Strip(piece) == piece.name
IsHeader(piece) == piece.kind = "bracket" /\ Strip(piece) \in SECTION_NAMES

(* the loop over re.finditer: heads.append((name, m.start())) *)
RECURSIVE FindHeads(_, _)
FindHeads(txt, k) ==
    IF k > Len(txt) THEN <<>>
    ELSE IF IsHeader(txt[k])
    THEN <<[name |-> Strip(txt[k]), pos |-> StartOf(txt, k)]>> \o FindHeads(txt, k + 1)
    ELSE FindHeads(txt, k + 1)

(* heads.sort(key=lambda x: x[1]): a stable insertion sort on the position *)
RECURSIVE InsertByPos(_, _)
InsertByPos(h, sorted) ==
    IF sorted = <<>> THEN <<h>>
    ELSE IF h.pos < sorted[1].pos THEN <<h>> \o sorted
    ELSE <<sorted[1]>> \o InsertByPos(h, Tail(sorted))

RECURSIVE SortByPos(_)
SortByPos(heads) ==
    IF heads = <<>> THEN <<>>
    ELSE InsertByPos(heads[Len(heads)], SortByPos(SubSeq(heads, 1, Len(heads) - 1)))

(* txt[pos:end]: the pieces that start in [pos, end) *)
TextBetween(txt, pos, end) ==
    SelectSeq([k \in 1..Len(txt) |-> [piece |-> txt[k], at |-> StartOf(txt, k)]],
              LAMBDA e : pos <= e.at /\ e.at < end)

(* _norm: every run of control characters becomes one newline *)
RECURSIVE Norm(_)
Norm(pieces) ==
    IF pieces = <<>> THEN <<>>
    ELSE IF pieces[1].kind # "ctl" THEN <<pieces[1]>> \o Norm(Tail(pieces))
    ELSE IF Len(pieces) >= 2 /\ pieces[2].kind = "ctl" THEN Norm(Tail(pieces))
    ELSE <<Newline>> \o Norm(Tail(pieces))

(* end = heads[i + 1][1] if i + 1 < len(heads) else len(txt) *)
SliceEnd(txt, heads, i) == IF i + 1 <= Len(heads) THEN heads[i + 1].pos ELSE TextLen(txt)

(* the slice of head i (1-based): its span and the chunk _norm(txt[pos:end]) *)
SliceOf(txt, heads, i) ==
    LET pos == heads[i].pos
        end == SliceEnd(txt, heads, i)
        between == TextBetween(txt, pos, end)
    IN  [pos |-> pos, end |-> end, chunk |-> Norm([k \in 1..Len(between) |-> between[k].piece])]

MaxPieces == 4

Pieces ==
    { Bracket("Operation", 0, 11), Bracket("Operation", 1, 13),
      Bracket("Measurement Properties", 0, 24), Bracket("Comments", 0, 10), Char, Ctl }

SlicerTexts == UNION { [1..n -> Pieces] : n \in 0..MaxPieces }

exceptSlicer ==
    <<vars, filetime, rounding, plot, threads, labeller, describer,
      capper, miner, iqr, smoother, mathstat>>

SlicerInit ==
    /\ MainIdle
    /\ slicer \in { [pc |-> "find", txt |-> t, heads |-> <<>>, i |-> 1, out |-> EmptyDict] : t \in SlicerTexts }
    /\ filetime = Idle
    /\ rounding = Idle
    /\ plot = Idle
    /\ threads = Idle
    /\ labeller = Idle
    /\ describer = Idle
    /\ capper = Idle
    /\ miner = Idle
    /\ iqr = Idle
    /\ smoother = Idle
    /\ mathstat = Idle

(* the finditer loop and the sort *)
SliceFind ==
    /\ slicer.pc = "find"
    /\ slicer' = [slicer EXCEPT !.pc = "emit", !.heads = SortByPos(FindHeads(slicer.txt, 1))]
    /\ UNCHANGED exceptSlicer

(* one pass of the loop over heads: out[name] = _norm(txt[pos:end]) *)
SliceEmit ==
    /\ slicer.pc = "emit"
    /\ slicer.i <= Len(slicer.heads)
    /\ slicer' = [slicer EXCEPT
                     !.out = Put(@, slicer.heads[slicer.i].name,
                                 SliceOf(slicer.txt, slicer.heads, slicer.i)),
                     !.i = @ + 1]
    /\ UNCHANGED exceptSlicer

(* return out *)
SliceReturn ==
    /\ slicer.pc = "emit"
    /\ slicer.i > Len(slicer.heads)
    /\ slicer' = [slicer EXCEPT !.pc = "returned"]
    /\ UNCHANGED exceptSlicer

SlicerNext ==
    \/ SliceFind
    \/ SliceEmit
    \/ SliceReturn

SpecSlicer == SlicerInit /\ [][SlicerNext]_allvars

(* the pieces of a text that are headers of the vocabulary, by position *)
HeaderOccurrences(txt) == { k \in 1..Len(txt) : IsHeader(txt[k]) }

(* the start of the first recognized header after piece k, or the end of the text *)
NextHeaderStart(txt, k) ==
    IF \E j \in HeaderOccurrences(txt) : j > k
    THEN StartOf(txt, Least({ j \in HeaderOccurrences(txt) : j > k }))
    ELSE TextLen(txt)

(* C18, as claimed: every occurrence of a header of the vocabulary has one  *)
(* slice in the result, from its start to the start of the next recognized  *)
(* header or the end of the text, also when a header occurs more than once; *)
(* the slices do not overlap.                                               *)
SliceEveryOccurrence ==
    slicer.pc = "returned" =>
        /\ \A k \in HeaderOccurrences(slicer.txt) :
              \E name \in DOMAIN slicer.out :
                  /\ name = Strip(slicer.txt[k])
                  /\ slicer.out[name].pos = StartOf(slicer.txt, k)
                  /\ slicer.out[name].end = NextHeaderStart(slicer.txt, k)
        /\ \A a, b \in DOMAIN slicer.out :
              a # b => (slicer.out[a].end <= slicer.out[b].pos \/ slicer.out[b].end <= slicer.out[a].pos)

----------------------------------------------------------------------------
(* Concurrent calls of load_uvvis_spc.  What the calls share: the module    *)
(* level tables _SCHEMA and _SECTION_NAMES, and the lazy proxies np and pd  *)
(* of sciwork.imports, which import their module on first attribute access. *)
(* Everything else is local to a call.  A call's steps are those of         *)
(* load_uvvis_spc above; threads switch between steps.                      *)
ThreadIds == {1, 2}

ModuleTables == [SCHEMA |-> SCHEMA, SECTION_NAMES |-> SECTION_NAMES]

TablesAfterEnsureNarrowed(tables, m) ==
    [tables EXCEPT !.SCHEMA = [s \in DOMAIN @ |-> @[s] \cap DOMAIN m[s]]]

(* _ensure_schema only reads _SCHEMA: setdefault is applied to meta *)
TablesAfterEnsure(tables, m) == tables

(* the files on disk: a readable spectrum, one without range text, one      *)
(* whose numeric block is found as float32                                  *)
ThreadFiles ==
    { MakeBlob([secs |-> {"Measurement Properties"}, labels |-> FALSE,
                rng |-> Some(<<T0, T2>>), samp |-> Some(T1)],
               [sig |-> TRUE, uvprobe |-> TRUE, ver |-> TRUE, inst |-> TRUE, ft |-> Some(1500999)],
               PlainNumeric),
      MakeBlob([secs |-> SECTION_NAMES, labels |-> TRUE, rng |-> None, samp |-> None],
               PlainCluster, PlainNumeric),
      MakeBlob([secs |-> {"Measurement Properties"}, labels |-> FALSE,
                rng |-> Some(<<T0, T2>>), samp |-> Some(T1)],
               PlainCluster,
               Numeric(<<NaN, NaN, NaN>>, FALSE, NaN, <<Fin(0), Fin(2), Fin(4), Fin(0)>>, Run4At)) }

ThreadCalls == { [exists |-> TRUE, tz |-> DefaultTz], [exists |-> TRUE, tz |-> None],
                 [exists |-> FALSE, tz |-> None] }

(* a call before its first step *)
NewCall(call, file) ==
    [ pc |-> "call", path |-> call, file |-> file, blob |-> NoBlob, meta |-> EmptyGroups,
      mined |-> EmptyGroups, axis |-> NoAxis, best |-> None, df |-> NoTable, err |-> NoError ]

Raised(l, e) == [l EXCEPT !.pc = "raised", !.err = e]

(* one step of a call on its local state; tables are the module tables the  *)
(* step reads                                                               *)
CallStep(l, tables) ==
    CASE l.pc = "call" ->
            IF l.path.exists THEN [l EXCEPT !.pc = "read"] ELSE Raised(l, ErrMissing)
      [] l.pc = "read" -> [l EXCEPT !.blob = l.file, !.pc = "extract"]
      [] l.pc = "extract" ->
            IF ExtractSectionsRaises(l.blob.text) THEN Raised(l, ErrFloat)
            ELSE [l EXCEPT !.meta = ExtractSections(l.blob.text), !.pc = "mine"]
      [] l.pc = "mine" ->
            [l EXCEPT !.mined = MineAsciiCluster(l.blob.cluster, l.path.tz), !.pc = "merge"]
      [] l.pc = "merge" -> [l EXCEPT !.meta = MergeMined(l.meta, l.mined), !.pc = "axis"]
      [] l.pc = "axis" ->
            LET a == AxisOf(l.meta["measurement_properties"])
            IN  IF RangeInvalid(a.n) THEN Raised([l EXCEPT !.axis = a], ErrRange)
                ELSE [l EXCEPT !.axis = a, !.pc = "scan_float64"]
      [] l.pc = "scan_float64" ->
            LET b == ScanFrom(l.blob, "float64", l.axis.n, 0, l.best)
            IN  [l EXCEPT !.best = b,
                          !.pc = IF ReturnsAfter(b, "float64") THEN "assemble" ELSE "scan_float32"]
      [] l.pc = "scan_float32" ->
            LET b == ScanFrom(l.blob, "float32", l.axis.n, 0, l.best)
            IN  IF ReturnsAfter(b, "float32") THEN [l EXCEPT !.best = b, !.pc = "assemble"]
                ELSE Raised([l EXCEPT !.best = b], ErrBlock)
      [] l.pc = "assemble" ->
            LET y == Get(l.best)
                stored == [data_block_offset |-> Some(y.start),
                           data_dtype |-> Some(y.dname),
                           point_count |-> Some(l.axis.n)]
                m == EnsureSchemaOf(tables.SCHEMA,
                                    [l.meta EXCEPT !["stored_data"] = Update(@, stored)])
            IN  [l EXCEPT !.meta = m,
                          !.df = [returned |-> TRUE,
                                  wavelength_nm |-> WavelengthAxis(l.axis.wl0, l.axis.wl1, l.axis.n),
                                  absorbance |-> y.arr,
                                  attrs |-> m],
                          !.pc = "done"]
      [] OTHER -> l

CallEnded(l) == l.pc \in {"done", "raised"}

(* the lazy proxies a step touches: np in _find_y_values and the axis, pd   *)
(* in the DataFrame                                                         *)
LazyLoads(p) ==
    CASE p \in {"scan_float64", "scan_float32"} -> {"numpy"}
      [] p = "assemble" -> {"numpy", "pandas"}
      [] OTHER -> {}

exceptThreads ==
    <<vars, filetime, slicer, rounding, plot, labeller, describer,
      capper, miner, iqr, smoother, mathstat>>

ThreadsInit ==
    /\ MainIdle
    /\ threads \in { [pc |-> "running", tables |-> ModuleTables, loaded |-> {},
                       call |-> [c \in ThreadIds |-> NewCall(cs[c], fs[c])]] :
                     cs \in [ThreadIds -> ThreadCalls], fs \in [ThreadIds -> ThreadFiles] }
    /\ filetime = Idle
    /\ slicer = Idle
    /\ rounding = Idle
    /\ plot = Idle
    /\ labeller = Idle
    /\ describer = Idle
    /\ capper = Idle
    /\ miner = Idle
    /\ iqr = Idle
    /\ smoother = Idle
    /\ mathstat = Idle

ThreadAt(c, p) == threads.pc = "running" /\ threads.call[c].pc = p

(* thread c runs the step of load_uvvis_spc it stands at *)
ThreadRuns(c) ==
    LET p == threads.call[c].pc
    IN  /\ threads' = [threads EXCEPT
                          !.call[c] = CallStep(threads.call[c], threads.tables),
                          !.loaded = @ \cup LazyLoads(p),
                          !.tables = IF p = "assemble"
                                     THEN TablesAfterEnsure(@, threads.call[c].meta)
                                     ELSE @]
        /\ UNCHANGED exceptThreads

ThreadCheckPath ==
    \E c \in ThreadIds :
        /\ ThreadAt(c, "call")
        /\ ThreadRuns(c)

ThreadReadBytes ==
    \E c \in ThreadIds :
        /\ ThreadAt(c, "read")
        /\ ThreadRuns(c)

ThreadExtract ==
    \E c \in ThreadIds :
        /\ ThreadAt(c, "extract")
        /\ ThreadRuns(c)

ThreadMine ==
    \E c \in ThreadIds :
        /\ ThreadAt(c, "mine")
        /\ ThreadRuns(c)

ThreadMerge ==
    \E c \in ThreadIds :
        /\ ThreadAt(c, "merge")
        /\ ThreadRuns(c)

ThreadBuildAxis ==
    \E c \in ThreadIds :
        /\ ThreadAt(c, "axis")
        /\ ThreadRuns(c)

ThreadScanFloat64 ==
    \E c \in ThreadIds :
        /\ ThreadAt(c, "scan_float64")
        /\ ThreadRuns(c)

ThreadScanFloat32 ==
    \E c \in ThreadIds :
        /\ ThreadAt(c, "scan_float32")
        /\ ThreadRuns(c)

ThreadAssemble ==
    \E c \in ThreadIds :
        /\ ThreadAt(c, "assemble")
        /\ ThreadRuns(c)

ThreadsNext ==
    \/ ThreadCheckPath
    \/ ThreadReadBytes
    \/ ThreadExtract
    \/ ThreadMine
    \/ ThreadMerge
    \/ ThreadBuildAxis
    \/ ThreadScanFloat64
    \/ ThreadScanFloat32
    \/ ThreadAssemble

SpecThreads == ThreadsInit /\ [][ThreadsNext]_allvars

(* the same call run alone, with the module tables as they are at import *)
RECURSIVE RunAlone(_)
RunAlone(l) == IF CallEnded(l) THEN l ELSE RunAlone(CallStep(l, ModuleTables))

(* C17: however the steps of the calls interleave, a call that has ended    *)
(* holds the table, the metadata and the error the same call gives when run *)
(* alone; _SCHEMA and _SECTION_NAMES are never modified, and the buffer a   *)
(* call read stays equal to the file's bytes.                               *)
CallsIsolated ==
    threads.pc = "running" =>
        /\ threads.tables = ModuleTables
        /\ \A c \in ThreadIds :
              LET l == threads.call[c]
                  alone == RunAlone(NewCall(l.path, l.file))
              IN  /\ l.blob \in {NoBlob, l.file}
                  /\ CallEnded(l) => (l.df = alone.df /\ l.err = alone.err /\ l.meta = alone.meta)

(* C17 witness: one call returned a table while the other, on another file  *)
(* and started before the first one ended, stands before its scan.          *)
CallsIsolatedWitness ==
    /\ threads.pc = "running"
    /\ threads.call[1].pc = "done"
    /\ threads.call[2].pc = "axis"
    /\ threads.call[1].file # threads.call[2].file
    /\ "pandas" \in threads.loaded
    /\ threads.call[1].df.attrs["stored_data"]["point_count"] = Some(3)

----------------------------------------------------------------------------
(* normal_round (stats/rounding.py).  A float is binary with FloatBits      *)
(* significant bits, every operation rounding its exact result to the       *)
(* nearest float, ties to even, as IEEE 754 does with 53 bits.  Magnitudes  *)
(* are counted in units of 2^-FracBits, the finest step of the floats       *)
(* explored; a value is a sign and a magnitude.                             *)
FloatBits == 6
FracBits == 7
MaxInShift == 8
MaxExp == 16

RECURSIVE Pow2(_)
Pow2(k) == IF k = 0 THEN 1 ELSE 2 * Pow2(k - 1)

One == Pow2(FracBits)

(* the float nearest to num/den units *)
FloatOf(num, den) ==
    LET s == Least({k \in 0..MaxExp : num < Pow2(FloatBits) * den * Pow2(k)})
    IN  RoundHalfEven(num, den * Pow2(s)) * Pow2(s)

Float(neg, mag) == [kind |-> "float", neg |-> neg, mag |-> mag]

(* every float of the format below 2^(MaxInShift - FracBits + FloatBits),   *)
(* both signs, and one value that is not a number                           *)
RoundValues ==
    { Float(neg, m * Pow2(sh)) :
        neg \in BOOLEAN, m \in 0..(Pow2(FloatBits) - 1), sh \in 0..MaxInShift }
    \cup { [kind |-> "str", neg |-> FALSE, mag |-> 0] }

RoundDecimals == {-1, 0, 1, 2}

(* scaled = abs(value) * factor *)
Scaled(value, decimals) == FloatOf(value.mag * Pow10(decimals), 1)

(* rounded = math.floor(scaled + 0.5), an int *)
Rounded(scaled) == FloatOf(2 * scaled + One, 2) \div One

(* result = rounded / factor; math.copysign(result, value) *)
Result(rounded, value, decimals) ==
    Float(value.neg, FloatOf(rounded * One, Pow10(decimals)))

NormalRound(value, decimals) ==
    Result(Rounded(Scaled(value, decimals)), value, decimals)

ErrType == [type |-> "TypeError", msg |-> "value must be a real number"]
ErrDecimals == [type |-> "ValueError", msg |-> "decimals must be a non-negative integer"]

exceptRounding ==
    <<vars, filetime, slicer, plot, threads, labeller, describer,
      capper, miner, iqr, smoother, mathstat>>

RoundInit ==
    /\ MainIdle
    /\ rounding \in { [pc |-> "call", value |-> v, decimals |-> d, scaled |-> 0, rounded |-> 0,
                        result |-> None, err |-> NoError] :
                      v \in RoundValues, d \in RoundDecimals }
    /\ filetime = Idle
    /\ slicer = Idle
    /\ plot = Idle
    /\ threads = Idle
    /\ labeller = Idle
    /\ describer = Idle
    /\ capper = Idle
    /\ miner = Idle
    /\ iqr = Idle
    /\ smoother = Idle
    /\ mathstat = Idle

(* the isinstance checks *)
RoundCheck ==
    /\ rounding.pc = "call"
    /\ rounding' =
          IF rounding.value.kind # "float"
          THEN [rounding EXCEPT !.pc = "raised", !.err = ErrType]
          ELSE IF rounding.decimals < 0
          THEN [rounding EXCEPT !.pc = "raised", !.err = ErrDecimals]
          ELSE [rounding EXCEPT !.pc = "scale"]
    /\ UNCHANGED exceptRounding

RoundScale ==
    /\ rounding.pc = "scale"
    /\ rounding' = [rounding EXCEPT !.scaled = Scaled(rounding.value, rounding.decimals),
                                     !.pc = "floor"]
    /\ UNCHANGED exceptRounding

RoundFloor ==
    /\ rounding.pc = "floor"
    /\ rounding' = [rounding EXCEPT !.rounded = Rounded(rounding.scaled), !.pc = "divide"]
    /\ UNCHANGED exceptRounding

RoundReturn ==
    /\ rounding.pc = "divide"
    /\ rounding' = [rounding EXCEPT
                       !.result = Some(Result(rounding.rounded, rounding.value, rounding.decimals)),
                       !.pc = "done"]
    /\ UNCHANGED exceptRounding

RoundNext ==
    \/ RoundCheck
    \/ RoundScale
    \/ RoundFloor
    \/ RoundReturn

SpecRound == RoundInit /\ [][RoundNext]_allvars

(* floats compare by value: the two zeros are equal *)
SameNumber(a, b) == a.mag = b.mag /\ (a.mag = 0 \/ a.neg = b.neg)

(* sign(v) * floor(|v| * 10^d + 0.5) / 10^d computed exactly, then the      *)
(* float nearest to it                                                      *)
HalfUp(value, decimals) ==
    LET q == (2 * value.mag * Pow10(decimals) + One) \div (2 * One)
    IN  Float(value.neg, FloatOf(q * One, Pow10(decimals)))

(* C20: a returned normal_round(v, d) is the float of                       *)
(* sign(v) * floor(|v| * 10^d + 0.5) / 10^d.                                *)
RoundsHalfUp ==
    rounding.pc = "done" =>
        SameNumber(Get(rounding.result), HalfUp(rounding.value, rounding.decimals))

----------------------------------------------------------------------------
(* Plot: the running data limits (plot/base.py), the drawing calls that     *)
(* feed them (plot/drawing.py) and set_axes_limits (plot/layout.py).        *)
(* Matplotlib is outside the repository: an axes is the bounds it was last  *)
(* given by set_xlim, set_ylim, set_zlim (None: its own default), and a 2D  *)
(* axes has no set_zlim.                                                    *)
Num(v) == [nan |-> FALSE, val |-> v]
NotANumber == [nan |-> TRUE, val |-> 0]

AxisNames == {"x", "y", "z"}

(* _DataLimits.empty() *)
EmptyLimits == [a \in AxisNames |-> <<None, None>>]

(* arr[~np.isnan(arr)] *)
NonNaN(values) == {values[i].val : i \in {j \in 1..Len(values) : ~values[j].nan}}

SetMin(S) == CHOOSE m \in S : \A v \in S : m <= v
SetMax(S) == CHOOSE m \in S : \A v \in S : m >= v

(* _DataLimits.update on the [min, max] list of one axis *)
LimitsUpdate(lim, values) ==
    LET arr == NonNaN(values)
    IN  IF arr = {} THEN lim
        ELSE << Some(IF lim[1] = None THEN SetMin(arr) ELSE Min(Get(lim[1]), SetMin(arr))),
                Some(IF lim[2] = None THEN SetMax(arr) ELSE Max(Get(lim[2]), SetMax(arr))) >>

(* BasePlot._update_limits: x, y, z are None or Some(values) *)
UpdateLimits(limits, x, y, z) ==
    LET given == [a \in AxisNames |-> IF a = "x" THEN x ELSE IF a = "y" THEN y ELSE z]
    IN  [a \in AxisNames |->
            IF given[a] = None THEN limits[a] ELSE LimitsUpdate(limits[a], Get(given[a]))]

(* range(len(data)) *)
Indices(data) == [i \in 1..Len(data) |-> Num(i - 1)]

MaxPlotCalls == 3
MaxPlotLen == 2
PlotNumber == 5

(* sequences of up to MaxPlotLen values: empty, NaN only, one value, two    *)
(* values, a value and NaN                                                  *)
PlotSeqs ==
    { v \in UNION { [1..n -> {NotANumber, Num(0), Num(2)}] : n \in 0..MaxPlotLen } :
        v \in { <<>>, <<NotANumber>>, <<Num(0)>>, <<Num(2)>>,
                <<Num(2), Num(0)>>, <<Num(2), NotANumber>> } }

(* one sequence of each length *)
PlotLens == { [i \in 1..n |-> Num(0)] : n \in 0..MaxPlotLen }

PlotKinds == {"line", "bar", "pie"}
SupportedKinds == {"scatter", "line", "moving_average", "histogram", "bar"}

BoundNames == {"xmin", "xmax", "ymin", "ymax", "zmin", "zmax"}
AxisOfBound(b) == IF b \in {"xmin", "xmax"} THEN "x" ELSE IF b \in {"ymin", "ymax"} THEN "y" ELSE "z"
IndexOfBound(b) == IF b \in {"xmin", "ymin", "zmin"} THEN 1 ELSE 2
BoundName(a, i) == CHOOSE b \in BoundNames : AxisOfBound(b) = a /\ IndexOfBound(b) = i

(* an argument of set_axes_limits: left out, the keyword "data", a number *)
LimitArgs == {"none", "data", "number"}
NoArgs == [b \in BoundNames |-> "none"]

(* the arguments explored: any bound left out or "data", xmax also a number *)
LimitArgSets ==
    { args \in [BoundNames -> LimitArgs] : \A b \in BoundNames \ {"xmax"} : args[b] # "number" }

(* resolve(axis, value, extreme, current): raises, or the bound to set *)
Resolve(limits, a, i, value, current) ==
    IF value = "data"
    THEN IF limits[a][i] = None
         THEN [raises |-> TRUE, bound |-> None]
         ELSE [raises |-> FALSE, bound |-> limits[a][i]]
    ELSE [raises |-> FALSE, bound |-> IF value = "none" THEN current[i] ELSE Some(PlotNumber)]

AxisRaises(limits, a, args, current) ==
    \E i \in {1, 2} : Resolve(limits, a, i, args[BoundName(a, i)], current).raises

AxisBounds(limits, a, args, current) ==
    << Resolve(limits, a, 1, args[BoundName(a, 1)], current).bound,
       Resolve(limits, a, 2, args[BoundName(a, 2)], current).bound >>

(* hasattr(axes, "set_zlim") *)
HasZLim(target) == target = "ax3d"

(* the bounds of the axes after set_xlim, set_ylim and, on 3D axes,         *)
(* set_zlim, each reached only if the resolves before it did not raise      *)
SetLimits(limits, target, args, cur) ==
    LET xr == AxisRaises(limits, "x", args, cur["x"])
        yr == AxisRaises(limits, "y", args, cur["y"])
        zr == HasZLim(target) /\ AxisRaises(limits, "z", args, cur["z"])
        afterX == IF xr THEN cur ELSE [cur EXCEPT !["x"] = AxisBounds(limits, "x", args, cur["x"])]
        afterY == IF xr \/ yr THEN afterX
                  ELSE [afterX EXCEPT !["y"] = AxisBounds(limits, "y", args, cur["y"])]
        afterZ == IF xr \/ yr \/ zr \/ ~HasZLim(target) THEN afterY
                  ELSE [afterY EXCEPT !["z"] = AxisBounds(limits, "z", args, cur["z"])]
    IN  [raises |-> xr \/ yr \/ zr, bounds |-> afterZ]

DefaultBounds == [a \in AxisNames |-> <<None, None>>]
NoSeen == [a \in AxisNames |-> {}]

exceptPlot ==
    <<vars, filetime, slicer, rounding, threads, labeller, describer,
      capper, miner, iqr, smoother, mathstat>>

(* Plot(): one 2D axes, no stored limits *)
PlotInit ==
    /\ MainIdle
    /\ plot = [ pc |-> "ready", calls |-> 0, limits |-> EmptyLimits, before |-> EmptyLimits,
                seen |-> NoSeen, has3d |-> FALSE,
                bounds |-> [t \in {"ax", "ax3d"} |-> DefaultBounds],
                last |-> [op |-> "Plot", outcome |-> "ok", target |-> "ax", args |-> NoArgs] ]
    /\ filetime = Idle
    /\ slicer = Idle
    /\ rounding = Idle
    /\ threads = Idle
    /\ labeller = Idle
    /\ describer = Idle
    /\ capper = Idle
    /\ miner = Idle
    /\ iqr = Idle
    /\ smoother = Idle
    /\ mathstat = Idle

CanCall == plot.pc = "ready" /\ plot.calls < MaxPlotCalls

(* the call returned after _update_limits(x, y, z) *)
Drawn(op, x, y, z) ==
    LET given == [a \in AxisNames |-> IF a = "x" THEN x ELSE IF a = "y" THEN y ELSE z]
    IN  [plot EXCEPT
            !.calls = @ + 1,
            !.before = plot.limits,
            !.limits = UpdateLimits(plot.limits, x, y, z),
            !.seen = [a \in AxisNames |->
                        IF given[a] = None THEN @[a] ELSE @[a] \cup NonNaN(Get(given[a]))],
            !.last = [op |-> op, outcome |-> "ok", target |-> "ax", args |-> NoArgs]]

(* the call raised ValueError before _update_limits *)
Refused(op) ==
    [plot EXCEPT !.calls = @ + 1, !.before = plot.limits,
                 !.last = [op |-> op, outcome |-> "ValueError", target |-> "ax", args |-> NoArgs]]

plot_1d ==
    /\ CanCall
    /\ \E data \in PlotSeqs :
          plot' = Drawn("plot_1d", Some(Indices(data)), Some(data), None)
    /\ UNCHANGED exceptPlot

(* x and y of equal lengths, or y None *)
plot_2d ==
    /\ CanCall
    /\ \E x \in PlotSeqs, y \in {None} \cup {Some(v) : v \in PlotSeqs}, plot_type \in PlotKinds :
          /\ y # None => Len(Get(y)) = Len(x)
          /\ plot' = IF plot_type \in SupportedKinds /\ y = None THEN Refused("plot_2d")
                     ELSE IF plot_type \notin SupportedKinds THEN Refused("plot_2d")
                     ELSE Drawn("plot_2d", Some(x), IF y # None THEN y ELSE Some(x), None)
    /\ UNCHANGED exceptPlot

(* ax is None: a new 3D subplot *)
plot_3d ==
    /\ CanCall
    /\ \E x \in PlotLens, y \in PlotSeqs, z \in PlotSeqs :
          plot' = IF ~(Len(x) = Len(y) /\ Len(y) = Len(z)) THEN Refused("plot_3d")
                  ELSE [Drawn("plot_3d", Some(x), Some(y), Some(z)) EXCEPT
                            !.has3d = TRUE, !.bounds["ax3d"] = DefaultBounds]
    /\ UNCHANGED exceptPlot

plot_std_deviation ==
    /\ CanCall
    /\ \E x \in PlotSeqs, y \in PlotSeqs, yerr \in PlotLens :
          plot' = IF ~(Len(x) = Len(y) /\ Len(y) = Len(yerr)) THEN Refused("plot_std_deviation")
                  ELSE Drawn("plot_std_deviation", Some(x), Some(y), None)
    /\ UNCHANGED exceptPlot

set_axes_limits ==
    /\ CanCall
    /\ \E target \in {"ax"} \cup (IF plot.has3d THEN {"ax3d"} ELSE {}),
          args \in LimitArgSets :
          LET r == SetLimits(plot.limits, target, args, plot.bounds[target])
          IN  plot' = [plot EXCEPT
                          !.calls = @ + 1,
                          !.before = plot.limits,
                          !.bounds[target] = r.bounds,
                          !.last = [op |-> "set_axes_limits",
                                    outcome |-> IF r.raises THEN "ValueError" ELSE "ok",
                                    target |-> target, args |-> args]]
    /\ UNCHANGED exceptPlot

PlotNext ==
    \/ plot_1d
    \/ plot_2d
    \/ plot_3d
    \/ plot_std_deviation
    \/ set_axes_limits

SpecPlot == PlotInit /\ [][PlotNext]_allvars

(* the stored limits of each axis are the extremes of the values drawn *)
LimitsTrack ==
    \A a \in AxisNames :
        plot.limits[a] = IF plot.seen[a] = {} THEN <<None, None>>
                         ELSE <<Some(SetMin(plot.seen[a])), Some(SetMax(plot.seen[a]))>>

(* against the limits before the last call: min not greater, max not less *)
LimitsMonotone ==
    \A a \in AxisNames :
        /\ plot.before[a][1] # None =>
              (plot.limits[a][1] # None /\ Get(plot.limits[a][1]) <= Get(plot.before[a][1]))
        /\ plot.before[a][2] # None =>
              (plot.limits[a][2] # None /\ Get(plot.limits[a][2]) >= Get(plot.before[a][2]))

(* a bound asked as "data": ValueError when nothing is stored for it, else  *)
(* a call that returned left the bound of the axes at the stored value      *)
DataKeywordOn(bs) ==
    plot.last.op = "set_axes_limits" =>
        \A b \in bs :
            plot.last.args[b] = "data" =>
                LET stored == plot.limits[AxisOfBound(b)][IndexOfBound(b)]
                IN  IF stored = None THEN plot.last.outcome = "ValueError"
                    ELSE plot.last.outcome = "ok" =>
                            (/\ AxisOfBound(b) = "z" => HasZLim(plot.last.target)
                             /\ plot.bounds[plot.last.target][AxisOfBound(b)][IndexOfBound(b)] = stored)

(* C19: after any sequence of plot_1d, plot_2d, plot_3d, plot_std_deviation *)
(* and set_axes_limits calls, the stored (min, max) of each axis are the    *)
(* extremes of the non-NaN values drawn on it (None, None if none), no call *)
(* raised a stored min or lowered a stored max, and set_axes_limits with    *)
(* "data" set the bound to the stored value or raised ValueError when the   *)
(* stored value is None.                                                    *)
PlotDataLimits ==
    plot.pc = "ready" => (LimitsTrack /\ LimitsMonotone /\ DataKeywordOn(BoundNames))

----------------------------------------------------------------------------
(* the record a successful call of load_uvvis_spc attached to the table *)
Decoded == pc = "done"
Attr(group, key) == df.attrs[group][key]

(* C27: in every successful decode datetime and datetime_utc are both None  *)
(* or both populated; they are populated only if the signature matched and  *)
(* its window holds a plausible FILETIME; with tz None the two are the same *)
(* string, with a zone they denote the same instant.                        *)
DatesPaired ==
    Decoded =>
        LET local == Attr("data_information", "datetime")
            utc == Attr("data_information", "datetime_utc")
        IN  /\ (local = None) <=> (utc = None)
            /\ local # None => (blob.cluster.sig /\ blob.cluster.ft # None)
            /\ (local # None /\ path.tz = None) => local = utc
            /\ (local # None /\ utc # None /\ path.tz # None) =>
                  InstantMs(Get(local)) = InstantMs(Get(utc))

(* C27 witness: a decode with a zone nine hours ahead: both dates are       *)
(* populated, differ as strings and denote one instant.                     *)
DatesPairedWitness ==
    /\ Decoded
    /\ path.tz = Some("Asia/Tokyo")
    /\ Attr("data_information", "datetime") # None
    /\ Attr("data_information", "datetime_utc") # None
    /\ Attr("data_information", "datetime") # Attr("data_information", "datetime_utc")
    /\ InstantMs(Get(Attr("data_information", "datetime")))
          = InstantMs(Get(Attr("data_information", "datetime_utc")))

(* C28: in every successful decode software_information.mode, wl_start_nm,  *)
(* wl_end_nm and the three stored_data keys are not None; wl_end_nm is      *)
(* above wl_start_nm; data_dtype is float64 or float32; point_count is the  *)
(* n of the axis and at least 2; the block of n elements starting at        *)
(* data_block_offset lies inside the buffer.                                *)
RequiredKeysPresent ==
    Decoded =>
        /\ Attr("software_information", "mode") # None
        /\ Attr("measurement_properties", "wl_start_nm") # None
        /\ Attr("measurement_properties", "wl_end_nm") # None
        /\ Get(Attr("measurement_properties", "wl_end_nm"))
              > Get(Attr("measurement_properties", "wl_start_nm"))
        /\ \A k \in SCHEMA["stored_data"] : Attr("stored_data", k) # None
        /\ Get(Attr("stored_data", "data_dtype")) \in {"float64", "float32"}
        /\ Get(Attr("stored_data", "point_count")) = axis.n
        /\ axis.n >= 2
        /\ Get(Attr("stored_data", "data_block_offset")) >= 0
        /\ Get(Attr("stored_data", "data_block_offset"))
              <= blob.L - axis.n * Stride(Get(Attr("stored_data", "data_dtype")))

(* C28 witness: a decode of a buffer without a Software Information header, *)
(* whose block is float32 and does not start at offset 0.                   *)
RequiredKeysPresentWitness ==
    /\ Decoded
    /\ "Software Information" \notin blob.text.secs
    /\ Attr("software_information", "mode") = Some("Normal Mode")
    /\ Attr("stored_data", "data_dtype") = Some("float32")
    /\ Get(Attr("stored_data", "data_block_offset")) > 0

----------------------------------------------------------------------------
(* Ticks.set_custom_tick_labels (plot/ticks.py).  The axes are the tick     *)
(* positions and labels of one axis and its limits; of Matplotlib's Axes    *)
(* only the attribute names the method looks up matter.                     *)
MaxTick == 3
MaxLabels == 4

LabelNames == <<"one", "two", "three", "four", "five">>

(* the attributes of a Matplotlib Axes among those the method asks for *)
AxesAttributes ==
    { "get_xticks", "get_yticks", "get_xlim", "get_ylim",
      "set_xticks", "set_yticks", "xaxis", "yaxis" }

(* f"set_{axis}tick" *)
TickSetterName(a) == IF a = "x" THEN "set_xtick" ELSE "set_ytick"

RECURSIVE Ascending(_)
Ascending(S) ==
    IF S = {} THEN <<>> ELSE LET m == SetMin(S) IN <<m>> \o Ascending(S \ {m})

(* [tick for tick in ticks if limits[0] <= tick <= limits[1]] *)
VisibleTicks(tks, limits) ==
    SelectSeq(tks, LAMBDA t : limits[1] <= t /\ t <= limits[2])

ErrLabelCount ==
    [type |-> "ValueError", msg |-> "Number of tick labels does not match visible ticks"]
ErrAttribute == [type |-> "AttributeError", msg |-> "no such attribute"]

exceptLabeller ==
    <<vars, filetime, slicer, rounding, plot, threads, describer,
      capper, miner, iqr, smoother, mathstat>>

(* an axes with ticks and limits, and a call with some labels *)
LabellerInit ==
    /\ MainIdle
    /\ labeller \in
         { [ pc |-> "call", axis |-> a, ticks |-> Ascending(T), limits |-> <<lo, hi>>,
             shown |-> None, tick_labels |-> SubSeq(LabelNames, 1, n),
             before |-> Ascending(T), err |-> NoError ] :
           a \in {"x", "y"}, T \in SUBSET (0..MaxTick), lo \in 0..MaxTick, hi \in 0..MaxTick,
           n \in 0..MaxLabels }
    /\ filetime = Idle
    /\ slicer = Idle
    /\ rounding = Idle
    /\ plot = Idle
    /\ threads = Idle
    /\ describer = Idle
    /\ capper = Idle
    /\ miner = Idle
    /\ iqr = Idle
    /\ smoother = Idle
    /\ mathstat = Idle

(* the count check *)
LabellerCount ==
    /\ labeller.pc = "call"
    /\ labeller' =
          IF Len(labeller.tick_labels) # Len(VisibleTicks(labeller.ticks, labeller.limits))
          THEN [labeller EXCEPT !.pc = "raised", !.err = ErrLabelCount]
          ELSE [labeller EXCEPT !.pc = "set_ticks"]
    /\ UNCHANGED exceptLabeller

(* getattr(axes, f"set_{axis}tick")(visible_ticks), then set_ticklabels *)
LabellerSetTicks ==
    /\ labeller.pc = "set_ticks"
    /\ labeller' =
          IF TickSetterName(labeller.axis) \notin AxesAttributes
          THEN [labeller EXCEPT !.pc = "raised", !.err = ErrAttribute]
          ELSE [labeller EXCEPT !.ticks = VisibleTicks(labeller.ticks, labeller.limits),
                                !.shown = Some(labeller.tick_labels),
                                !.pc = "done"]
    /\ UNCHANGED exceptLabeller

LabellerNext ==
    \/ LabellerCount
    \/ LabellerSetTicks

SpecLabeller == LabellerInit /\ [][LabellerNext]_allvars

LabellerEnded == labeller.pc \in {"done", "raised"}

(* a mismatch of the counts raises ValueError and changes nothing *)
MismatchRefused ==
    (LabellerEnded
       /\ Len(labeller.tick_labels) # Len(VisibleTicks(labeller.before, labeller.limits))) =>
        /\ labeller.pc = "raised"
        /\ labeller.err = ErrLabelCount
        /\ labeller.ticks = labeller.before
        /\ labeller.shown = None

(* C21: set_custom_tick_labels raises ValueError exactly when the number of *)
(* labels differs from the number of ticks within the limits, changing      *)
(* nothing then; with equal counts it puts the labels on the visible ticks  *)
(* and returns without raising.                                             *)
TickLabelsContract ==
    /\ MismatchRefused
    /\ (LabellerEnded
          /\ Len(labeller.tick_labels) = Len(VisibleTicks(labeller.before, labeller.limits))) =>
           /\ labeller.pc = "done"
           /\ labeller.ticks = VisibleTicks(labeller.before, labeller.limits)
           /\ labeller.shown = Some(labeller.tick_labels)

----------------------------------------------------------------------------
(* moving_average (stats/transforms.py) on a vector of numbers.  After k    *)
(* passes the elements are fractions with denominator window_size^k; the    *)
(* vector is kept as its numerators.                                        *)
MaxVec == 4
MaxIterations == 2

SmoothVectors == UNION { [1..n -> {0, 1, 3}] : n \in 1..MaxVec }

(* np.pad(out, pad, mode="reflect"): element j of the padded vector, for    *)
(* 1 <= j <= Len(v) + 2 * pad, with pad < Len(v)                            *)
PadReflect(v, pad) ==
    [ j \in 1..(Len(v) + 2 * pad) |->
        LET k == j - pad
        IN  IF k < 1 THEN v[2 - k]
            ELSE IF k > Len(v) THEN v[2 * Len(v) - k]
            ELSE v[k] ]

(* np.convolve(padded, kernel, mode="valid") with a kernel of w equal       *)
(* weights 1/w: the window sums, one for every full overlap                 *)
ConvolveValid(padded, w) ==
    [ i \in 1..(Len(padded) - w + 1) |-> SumSeq(SubSeq(padded, i, i + w - 1)) ]

(* one pass of the loop: pad = window_size // 2 *)
SmoothOnce(out, w) == ConvolveValid(PadReflect(out, w \div 2), w)

ErrWindowArgs ==
    [type |-> "ValueError", msg |-> "window_size and iterations must be positive integers."]
ErrWindowLong ==
    [type |-> "ValueError", msg |-> "window_size must not exceed the vector length."]

exceptSmoother ==
    <<vars, filetime, slicer, rounding, plot, threads, labeller,
      describer, capper, miner, iqr, mathstat>>

SmootherInit ==
    /\ MainIdle
    /\ smoother \in
         { [ pc |-> "call", x |-> v, window_size |-> w, iterations |-> it,
             out |-> <<>>, passes |-> 0, err |-> NoError ] :
           v \in SmoothVectors, w \in 0..(MaxVec + 1), it \in 0..MaxIterations }
    /\ filetime = Idle
    /\ slicer = Idle
    /\ rounding = Idle
    /\ plot = Idle
    /\ threads = Idle
    /\ labeller = Idle
    /\ describer = Idle
    /\ capper = Idle
    /\ miner = Idle
    /\ iqr = Idle
    /\ mathstat = Idle

(* the two argument checks, then out = x.astype(float, copy=True) *)
SmoothCheck ==
    /\ smoother.pc = "call"
    /\ smoother' =
          IF smoother.window_size < 1 \/ smoother.iterations < 1
          THEN [smoother EXCEPT !.pc = "raised", !.err = ErrWindowArgs]
          ELSE IF smoother.window_size > Len(smoother.x)
          THEN [smoother EXCEPT !.pc = "raised", !.err = ErrWindowLong]
          ELSE [smoother EXCEPT !.pc = "loop", !.out = smoother.x]
    /\ UNCHANGED exceptSmoother

(* for _ in range(iterations): pad, convolve *)
SmoothPass ==
    /\ smoother.pc = "loop"
    /\ smoother.passes < smoother.iterations
    /\ smoother' = [smoother EXCEPT !.out = SmoothOnce(smoother.out, smoother.window_size),
                                     !.passes = @ + 1]
    /\ UNCHANGED exceptSmoother

SmoothReturn ==
    /\ smoother.pc = "loop"
    /\ smoother.passes = smoother.iterations
    /\ smoother' = [smoother EXCEPT !.pc = "done"]
    /\ UNCHANGED exceptSmoother

SmootherNext ==
    \/ SmoothCheck
    \/ SmoothPass
    \/ SmoothReturn

SpecSmoother == SmootherInit /\ [][SmootherNext]_allvars

SmoothArgsValid ==
    /\ 1 <= smoother.window_size
    /\ smoother.window_size <= Len(smoother.x)
    /\ smoother.iterations >= 1

(* C29: moving_average returns as many elements as its input has, for every *)
(* window_size from 1 to the input's length, odd or even, and every         *)
(* iterations >= 1; other arguments raise ValueError.                       *)
SmoothKeepsLength ==
    /\ smoother.pc = "done" => (SmoothArgsValid /\ Len(smoother.out) = Len(smoother.x))
    /\ smoother.pc = "raised" => (~SmoothArgsValid /\ smoother.err.type = "ValueError")

----------------------------------------------------------------------------
(* outliers_iqr (stats/outliers.py).  The elements of a vector are numbers  *)
(* or NaN; quartiles are kept as four times their value and the threshold   *)
(* as a count of halves, so that the fences, times eight, are integers.     *)
MaxOutlierLen == 4
MaxPasses == 3

OutlierVectors == UNION { [1..n -> {NotANumber, Num(0), Num(1), Num(2), Num(10)}] : n \in 0..MaxOutlierLen }

(* threshold, in halves: 0, 0.5, 1.5 *)
ThresholdHalves == {0, 1, 3}

(* np.nanpercentile(v, p) for p = 25 * quarter, times four: NaN dropped,    *)
(* the rest sorted, linear interpolation at position p/100 * (m - 1); None  *)
(* stands for the NaN an empty or all-NaN vector gives                      *)
RECURSIVE SortedSeq(_)
SortedSeq(v) ==
    IF v = <<>> THEN <<>>
    ELSE LET i == CHOOSE k \in 1..Len(v) : \A j \in 1..Len(v) : v[k] <= v[j]
         IN  <<v[i]>> \o SortedSeq(SubSeq(v, 1, i - 1) \o SubSeq(v, i + 1, Len(v)))

Numbers(v) ==
    LET kept == SelectSeq(v, LAMBDA e : ~e.nan)
    IN  [i \in 1..Len(kept) |-> kept[i].val]

NanPercentile4(v, quarter) ==
    LET s == SortedSeq(Numbers(v))
        m == Len(s)
        i == (quarter * (m - 1)) \div 4
        r == (quarter * (m - 1)) % 4
    IN  IF m = 0 THEN None
        ELSE IF r = 0 THEN Some(4 * s[i + 1])
        ELSE Some(4 * s[i + 1] + r * (s[i + 2] - s[i + 1]))

(* lo, hi = q1 - threshold * iqr, q3 + threshold * iqr, times eight *)
Fences8(v, halves) ==
    LET q1 == NanPercentile4(v, 1)
        q3 == NanPercentile4(v, 3)
    IN  IF q1 = None THEN None
        ELSE Some(<< 2 * Get(q1) - halves * (Get(q3) - Get(q1)),
                     2 * Get(q3) + halves * (Get(q3) - Get(q1)) >>)

OutlierMaskInclusive(v, halves) ==
    LET f == Fences8(v, halves)
    IN  [i \in 1..Len(v) |->
            /\ f # None
            /\ ~v[i].nan
            /\ (8 * v[i].val <= Get(f)[1] \/ 8 * v[i].val >= Get(f)[2])]

(* mask = (x_work < lo) | (x_work > hi): a comparison with NaN is False *)
OutlierMask(v, halves) ==
    LET f == Fences8(v, halves)
    IN  [i \in 1..Len(v) |->
            /\ f # None
            /\ ~v[i].nan
            /\ (8 * v[i].val < Get(f)[1] \/ 8 * v[i].val > Get(f)[2])]

RECURSIVE Masked(_, _, _)
Masked(v, mask, keep) ==
    IF v = <<>> THEN <<>>
    ELSE (IF mask[1] = keep THEN <<v[1]>> ELSE <<>>)
           \o Masked(Tail(v), Tail(mask), keep)

ErrEmptyData == [type |-> "ValueError", msg |-> "Empty sequence is not valid."]

exceptIqr ==
    <<vars, filetime, slicer, rounding, plot, threads, labeller,
      describer, capper, miner, smoother, mathstat>>

IqrInit ==
    /\ MainIdle
    /\ iqr \in
         { [ pc |-> "call", data |-> v, threshold |-> t, max_iterations |-> mi,
             x_work |-> <<>>, outs |-> <<>>, passes |-> 0,
             pass_input |-> <<>>, pass_removed |-> <<>>, err |-> NoError ] :
           v \in OutlierVectors, t \in ThresholdHalves, mi \in 0..MaxPasses }
    /\ filetime = Idle
    /\ slicer = Idle
    /\ rounding = Idle
    /\ plot = Idle
    /\ threads = Idle
    /\ labeller = Idle
    /\ describer = Idle
    /\ capper = Idle
    /\ miner = Idle
    /\ smoother = Idle
    /\ mathstat = Idle

(* x = coerce_vector(data); x_work = x.copy() *)
IqrCoerce ==
    /\ iqr.pc = "call"
    /\ iqr' = IF iqr.data = <<>> THEN [iqr EXCEPT !.pc = "raised", !.err = ErrEmptyData]
              ELSE [iqr EXCEPT !.pc = "loop", !.x_work = iqr.data]
    /\ UNCHANGED exceptIqr

(* a pass that finds values outside the fences *)
IqrPass ==
    /\ iqr.pc = "loop"
    /\ iqr.passes < iqr.max_iterations
    /\ LET mask == OutlierMask(iqr.x_work, iqr.threshold)
           new_vals == Masked(iqr.x_work, mask, TRUE)
       IN  /\ new_vals # <<>>
           /\ iqr' = [iqr EXCEPT !.outs = @ \o new_vals,
                                 !.x_work = Masked(iqr.x_work, mask, FALSE),
                                 !.passes = @ + 1,
                                 !.pass_input = iqr.x_work,
                                 !.pass_removed = new_vals]
    /\ UNCHANGED exceptIqr

(* if new_vals.size == 0: break *)
IqrBreak ==
    /\ iqr.pc = "loop"
    /\ iqr.passes < iqr.max_iterations
    /\ Masked(iqr.x_work, OutlierMask(iqr.x_work, iqr.threshold), TRUE) = <<>>
    /\ iqr' = [iqr EXCEPT !.pc = "done", !.passes = @ + 1,
                          !.pass_input = iqr.x_work, !.pass_removed = <<>>]
    /\ UNCHANGED exceptIqr

(* range(max_iterations) is used up *)
IqrExhausted ==
    /\ iqr.pc = "loop"
    /\ iqr.passes >= iqr.max_iterations
    /\ iqr' = [iqr EXCEPT !.pc = "done"]
    /\ UNCHANGED exceptIqr

IqrNext ==
    \/ IqrCoerce
    \/ IqrPass
    \/ IqrBreak
    \/ IqrExhausted

SpecIqr == IqrInit /\ [][IqrNext]_allvars

IqrEnded == iqr.pc \in {"done", "raised"}

SeqBag(v) == [e \in {v[i] : i \in 1..Len(v)} |-> Cardinality({i \in 1..Len(v) : v[i] = e})]

(* value e lies strictly outside the fences of vector v *)
StrictlyOutside(e, v, halves) ==
    /\ ~e.nan
    /\ NanPercentile4(v, 1) # None
    /\ LET q1 == Get(NanPercentile4(v, 1))
           q3 == Get(NanPercentile4(v, 3))
       IN  \/ 8 * e.val < 2 * q1 - halves * (q3 - q1)
           \/ 8 * e.val > 2 * q3 + halves * (q3 - q1)

----------------------------------------------------------------------------
(* MathStat (stats/mathstat.py) and the module-level functions it wraps.    *)
(* The wrapped data is a list or a one-dimensional array of numbers.  A     *)
(* keyword argument is None when the caller leaves it out, and the default  *)
(* of the signature applies.  A result is an error or a value.              *)
MaxMsLen == 3
MaxMsCalls == 2

MsData == { [kind |-> k, values |-> v] :
              k \in {"list", "ndarray"},
              v \in UNION { [1..n -> {0, 1, 4}] : n \in 0..MaxMsLen } }

Given(arg, dflt) == IF arg = None THEN dflt ELSE Get(arg)

Returned(v) == [err |-> NoError, value |-> v]
Failed(e) == [err |-> e, value |-> <<>>]

(* coerce_vector on a sequence or an ndarray: empty input raises *)
coerce_vector(data) ==
    IF data.values = <<>>
    THEN Failed([type |-> "ValueError",
                 msg |-> IF data.kind = "list" THEN "Empty sequence is not valid."
                         ELSE "Empty array is not valid."])
    ELSE Returned([i \in 1..Len(data.values) |-> Num(data.values[i])])

(* describe_1d: the mean is the pair sum, count; the median is kept twice;  *)
(* the standard deviation (ddof = 1) is the square root of the pair         *)
(* numerator, denominator, and NaN for a single value; coeff_var is the     *)
(* pair std, mean, and NaN for a mean of zero                               *)
describe_1d(data) ==
    LET x == coerce_vector(data)
        s == SortedSeq(Numbers(x.value))
        n == Len(s)
        sm == SumSeq(s)
        std == IF n = 1 THEN "nan"
               ELSE [sqrt_of |-> << SumSeq([i \in 1..n |-> (n * s[i] - sm) * (n * s[i] - sm)]),
                                    n * n * (n - 1) >>]
    IN  IF x.err # NoError THEN x
        ELSE Returned([ min |-> s[1], max |-> s[n], sum |-> sm, mean |-> <<sm, n>>,
                        median |-> IF n % 2 = 1 THEN 2 * s[(n + 1) \div 2]
                                   ELSE s[n \div 2] + s[n \div 2 + 1],
                        std |-> <<std>>,
                        coeff_var |-> IF sm = 0 THEN <<"nan">> ELSE <<std, sm, n>> ])

(* percentiles: np.nanpercentile(x, list(pct)), for multiples of 25 *)
percentiles(data, pct) ==
    LET x == coerce_vector(data)
    IN  IF x.err # NoError THEN x
        ELSE Returned([i \in 1..Len(pct) |-> NanPercentile4(x.value, pct[i] \div 25)])

(* the loop of outliers_iqr as a function of what is left of the range *)
RECURSIVE OutliersLoop(_, _, _, _)
OutliersLoop(x_work, outs, halves, left) ==
    IF left <= 0 THEN outs
    ELSE LET mask == OutlierMask(x_work, halves)
             new_vals == Masked(x_work, mask, TRUE)
         IN  IF new_vals = <<>> THEN outs
             ELSE OutliersLoop(Masked(x_work, mask, FALSE), outs \o new_vals, halves, left - 1)

(* outliers_iqr(data, *, threshold=1.5, max_iterations=5) *)
outliers_iqr(data, threshold, max_iterations) ==
    LET x == coerce_vector(data)
    IN  IF x.err # NoError THEN x
        ELSE Returned(OutliersLoop(x.value, <<>>, Given(threshold, 3), Given(max_iterations, 5)))

(* log_values(data, *, base=math.e): np.log(x) / math.log(base), with       *)
(* log(0) = -inf and log(1) = 0; any other quotient is kept as its terms    *)
log_values(data, base) ==
    LET x == coerce_vector(data)
        b == Given(base, "e")
    IN  IF x.err # NoError THEN x
        ELSE Returned([i \in 1..Len(x.value) |->
                 IF x.value[i].val = 0 THEN [kind |-> "-inf", of |-> 0, base |-> b]
                 ELSE IF x.value[i].val = 1 THEN [kind |-> "zero", of |-> 1, base |-> b]
                 ELSE [kind |-> "log", of |-> x.value[i].val, base |-> b]])

(* power_values(data, *, base=math.e): np.power(base, x) *)
power_values(data, base) ==
    LET x == coerce_vector(data)
        b == Given(base, "e")
    IN  IF x.err # NoError THEN x
        ELSE Returned([i \in 1..Len(x.value) |->
                 IF x.value[i].val = 0 THEN [kind |-> "one", base |-> b, exponent |-> 0]
                 ELSE [kind |-> "power", base |-> b, exponent |-> x.value[i].val]])

RECURSIVE SmoothTimes(_, _, _)
SmoothTimes(out, w, left) ==
    IF left = 0 THEN out ELSE SmoothTimes(SmoothOnce(out, w), w, left - 1)

(* moving_average(data, *, window_size=5, iterations=1): the numerators of  *)
(* the result, over window_size ^ iterations                                *)
moving_average(data, window_size, iterations) ==
    LET x == coerce_vector(data)
        w == Given(window_size, 5)
        it == Given(iterations, 1)
    IN  IF x.err # NoError THEN x
        ELSE IF w < 1 \/ it < 1 THEN Failed(ErrWindowArgs)
        ELSE IF w > Len(x.value) THEN Failed(ErrWindowLong)
        ELSE Returned(SmoothTimes(Numbers(x.value), w, it))

(* the methods of MathStat: each passes self.data and its own keyword       *)
(* arguments, whose defaults are those of the function                      *)
MathStat_describe(self) == describe_1d(self.data)

MathStat_percentiles(self, pct) == percentiles(self.data, pct)

MathStat_outliers_default_threshold(self, threshold, max_iterations) ==
    outliers_iqr(self.data, None, Some(Given(max_iterations, 5)))

MathStat_outliers(self, threshold, max_iterations) ==
    outliers_iqr(self.data, Some(Given(threshold, 3)), Some(Given(max_iterations, 5)))

MathStat_log(self, base) == log_values(self.data, Some(Given(base, "e")))

MathStat_power(self, base) == power_values(self.data, Some(Given(base, "e")))

MathStat_moving_average(self, window_size, iterations) ==
    moving_average(self.data, Some(Given(window_size, 5)), Some(Given(iterations, 1)))

(* the arguments the calls are made with *)
PctArgs == {<<25>>, <<50>>, <<25, 75>>}
ThresholdArgs == {None, Some(0)}
MaxIterationArgs == {None, Some(1)}
BaseArgs == {None, Some("2"), Some("10")}
WindowArgs == {None, Some(2), Some(3)}
IterationArgs == {None, Some(2)}

NoCall == [method |-> "none", args |-> <<>>, result |-> Returned(<<>>)]

exceptMathstat ==
    <<vars, filetime, slicer, rounding, plot, threads, labeller,
      describer, capper, miner, iqr, smoother>>

MathStatInit ==
    /\ MainIdle
    /\ mathstat \in { [pc |-> "ready", data |-> d, given |-> d, calls |-> 0,
                       first |-> NoCall, last |-> NoCall] : d \in MsData }
    /\ filetime = Idle
    /\ slicer = Idle
    /\ rounding = Idle
    /\ plot = Idle
    /\ threads = Idle
    /\ labeller = Idle
    /\ describer = Idle
    /\ capper = Idle
    /\ miner = Idle
    /\ iqr = Idle
    /\ smoother = Idle

(* a method returned or raised: the object after the call *)
AfterCall(method, args, result) ==
    LET call == [method |-> method, args |-> args, result |-> result]
    IN  [mathstat EXCEPT !.calls = @ + 1,
                         !.first = IF mathstat.calls = 0 THEN call ELSE @,
                         !.last = call]

CanCallMethod == mathstat.pc = "ready" /\ mathstat.calls < MaxMsCalls

describe ==
    /\ CanCallMethod
    /\ mathstat' = AfterCall("describe", <<>>, MathStat_describe(mathstat))
    /\ UNCHANGED exceptMathstat

call_percentiles ==
    /\ CanCallMethod
    /\ \E pct \in PctArgs :
          mathstat' = AfterCall("percentiles", <<pct>>, MathStat_percentiles(mathstat, pct))
    /\ UNCHANGED exceptMathstat

outliers ==
    /\ CanCallMethod
    /\ \E threshold \in ThresholdArgs, max_iterations \in MaxIterationArgs :
          mathstat' = AfterCall("outliers", <<threshold, max_iterations>>,
                                MathStat_outliers(mathstat, threshold, max_iterations))
    /\ UNCHANGED exceptMathstat

log ==
    /\ CanCallMethod
    /\ \E base \in BaseArgs :
          mathstat' = AfterCall("log", <<base>>, MathStat_log(mathstat, base))
    /\ UNCHANGED exceptMathstat

power ==
    /\ CanCallMethod
    /\ \E base \in BaseArgs :
          mathstat' = AfterCall("power", <<base>>, MathStat_power(mathstat, base))
    /\ UNCHANGED exceptMathstat

call_moving_average ==
    /\ CanCallMethod
    /\ \E window_size \in WindowArgs, iterations \in IterationArgs :
          mathstat' = AfterCall("moving_average", <<window_size, iterations>>,
                                MathStat_moving_average(mathstat, window_size, iterations))
    /\ UNCHANGED exceptMathstat

MathStatNext ==
    \/ describe
    \/ call_percentiles
    \/ outliers
    \/ log
    \/ power
    \/ call_moving_average

SpecMathStat == MathStatInit /\ [][MathStatNext]_allvars

(* the module-level function applied to the data the object was built on *)
FunctionResult(call) ==
    CASE call.method = "describe" -> describe_1d(mathstat.given)
      [] call.method = "percentiles" -> percentiles(mathstat.given, call.args[1])
      [] call.method = "outliers" -> outliers_iqr(mathstat.given, call.args[1], call.args[2])
      [] call.method = "log" -> log_values(mathstat.given, call.args[1])
      [] call.method = "power" -> power_values(mathstat.given, call.args[1])
      [] call.method = "moving_average" ->
             moving_average(mathstat.given, call.args[1], call.args[2])

(* C30: every method of MathStat returns what the module-level function     *)
(* returns for the same data and arguments, the wrapped data is the data    *)
(* the object was built on after any calls, and a repeated call returns     *)
(* the same result.                                                         *)
WrapperStateless ==
    /\ mathstat.data = mathstat.given
    /\ mathstat.calls > 0 =>
          /\ mathstat.first.result = FunctionResult(mathstat.first)
          /\ mathstat.last.result = FunctionResult(mathstat.last)
    /\ ( /\ mathstat.calls = MaxMsCalls
         /\ mathstat.first.method = mathstat.last.method
         /\ mathstat.first.args = mathstat.last.args )
         => mathstat.first.result = mathstat.last.result

(* C30 witness: outliers(threshold=0) called twice on [0, 1, 4] returned    *)
(* the values 0 and 4 both times.                                           *)
WrapperStatelessWitness ==
    /\ mathstat.calls = MaxMsCalls
    /\ mathstat.given = [kind |-> "list", values |-> <<0, 1, 4>>]
    /\ mathstat.first.method = "outliers"
    /\ mathstat.first.args = <<Some(0), None>>
    /\ mathstat.last.method = "outliers"
    /\ mathstat.last.args = mathstat.first.args
    /\ mathstat.first.result = Returned(<<Num(0), Num(4)>>)
    /\ mathstat.last.result = Returned(<<Num(0), Num(4)>>)

----------------------------------------------------------------------------
(* MathStat.describe_table (stats/mathstat.py) and describe_df              *)
(* (stats/describe.py).  A DataFrame is its column labels, its number of    *)
(* rows (the index is 0, 1, ...) and its cells by row and column; numeric   *)
(* says whether the cells are numbers.                                      *)
MaxFrame == 2

ColumnLabels == {"a", "b"}

Frames ==
    { [kind |-> "DataFrame", columns |-> cols, nrows |-> n, cells |-> cells, numeric |-> num] :
        cols \in UNION { [1..c -> ColumnLabels] : c \in 0..MaxFrame },
        n \in 0..MaxFrame,
        cells \in UNION { [1..n2 -> UNION { [1..c2 -> {0, 1, 3}] : c2 \in 0..MaxFrame }] :
                          n2 \in 0..MaxFrame },
        num \in BOOLEAN }

WellFormed(f) ==
    /\ Len(f.cells) = f.nrows
    /\ \A r \in 1..f.nrows : Len(f.cells[r]) = Len(f.columns)

NotFrames ==
    { [kind |-> k, columns |-> <<>>, nrows |-> 0, cells |-> <<>>, numeric |-> TRUE] :
        k \in {"list", "ndarray", "Series", "dict"} }

(* list(df.columns if axis == 0 else df.index) *)
LabelsOf(f, along) ==
    IF along = 0 THEN f.columns ELSE [r \in 1..f.nrows |-> Some(r - 1)]

(* the values df.aggregate(fn, axis=axis) hands to fn for the i-th label *)
SliceOfFrame(f, along, i) ==
    IF along = 0 THEN [r \in 1..f.nrows |-> f.cells[r][i]]
    ELSE f.cells[i]

ordered_stats_without_coeff == <<"min", "max", "sum", "mean", "median", "std">>

ordered_stats == <<"min", "max", "sum", "mean", "median", "std", "coeff_var">>

(* the aggregations, and coeff = std / mean with infinities made NaN *)
StatOf(stat, values) ==
    LET d == describe_1d([kind |-> "ndarray", values |-> values]).value
    IN  CASE stat = "min" -> <<d.min>>
          [] stat = "max" -> <<d.max>>
          [] stat = "sum" -> <<d.sum>>
          [] stat = "mean" -> d.mean
          [] stat = "median" -> <<d.median>>
          [] stat = "std" -> d.std
          [] stat = "coeff_var" -> d.coeff_var

Distinct(labels) == \A i, j \in 1..Len(labels) : labels[i] = labels[j] => i = j

(* nothing along the described axis, or nothing in each slice *)
Degenerate(f, along) == Len(f.columns) = 0 \/ f.nrows = 0

(* data[(stat, label)] for stat in ordered_stats, for label in labels *)
TableKeys(stats, labels) ==
    [ k \in 1..(Len(stats) * Len(labels)) |->
        << stats[((k - 1) \div Len(labels)) + 1], labels[((k - 1) % Len(labels)) + 1] >> ]

ErrNotFrame ==
    [type |-> "ValueError", msg |-> "describe_table requires a pandas DataFrame as data"]

ErrLibrary == [type |-> "Exception", msg |-> "raised by pandas or numpy"]

exceptDescriber ==
    <<vars, filetime, slicer, rounding, plot, threads, labeller,
      capper, miner, iqr, smoother, mathstat>>

DescriberInit ==
    /\ MainIdle
    /\ describer \in
         { [ pc |-> "call", data |-> d, axis |-> a, computed |-> {},
             keys |-> <<>>, values |-> <<>>, err |-> NoError ] :
           d \in {f \in Frames : WellFormed(f)} \cup NotFrames, a \in {0, 1} }
    /\ filetime = Idle
    /\ slicer = Idle
    /\ rounding = Idle
    /\ plot = Idle
    /\ threads = Idle
    /\ labeller = Idle
    /\ capper = Idle
    /\ miner = Idle
    /\ iqr = Idle
    /\ smoother = Idle
    /\ mathstat = Idle

(* if not isinstance(self.data, pd.DataFrame): raise ValueError *)
DescribeGuard ==
    /\ describer.pc = "call"
    /\ describer' = IF describer.data.kind # "DataFrame"
                    THEN [describer EXCEPT !.pc = "raised", !.err = ErrNotFrame]
                    ELSE [describer EXCEPT !.pc = "aggregate"]
    /\ UNCHANGED exceptDescriber

(* the aggregation loop and coeff_var on a frame with numbers along both    *)
(* axes                                                                     *)
DescribeAggregate ==
    /\ describer.pc = "aggregate"
    /\ ~Degenerate(describer.data, describer.axis)
    /\ describer' =
         IF ~describer.data.numeric
         THEN [describer EXCEPT !.pc = "raised", !.err = ErrLibrary]
         ELSE [describer EXCEPT !.pc = "assemble",
                                !.computed = {ordered_stats[i] : i \in 1..Len(ordered_stats)}]
    /\ UNCHANGED exceptDescriber

(* the same on a frame that has no column or no row: what pandas and numpy  *)
(* do with the empty reductions is theirs; the loop ends or raises          *)
DescribeAggregateEmpty ==
    /\ describer.pc = "aggregate"
    /\ Degenerate(describer.data, describer.axis)
    /\ \E raises \in BOOLEAN :
          describer' = IF raises
                       THEN [describer EXCEPT !.pc = "raised", !.err = ErrLibrary]
                       ELSE [describer EXCEPT !.pc = "assemble",
                                !.computed = {ordered_stats[i] : i \in 1..Len(ordered_stats)}]
    /\ UNCHANGED exceptDescriber

(* labels, the dictionary of (stat, label) and the one-row table; reindex   *)
(* refuses duplicate labels, and the slices of a frame with labels but      *)
(* nothing in them may not convert                                          *)
DescribeAssemble ==
    /\ describer.pc = "assemble"
    /\ LET f == describer.data
           labels == LabelsOf(f, describer.axis)
           keys == TableKeys(ordered_stats, labels)
           empty == Degenerate(f, describer.axis)
       IN  \E raises \in BOOLEAN :
             /\ raises => (empty /\ labels # <<>>)
             /\ describer' =
                  IF ~Distinct(labels) \/ raises
                  THEN [describer EXCEPT !.pc = "raised", !.err = ErrLibrary]
                  ELSE [describer EXCEPT
                          !.pc = "done",
                          !.keys = keys,
                          !.values = [k \in 1..Len(keys) |->
                              IF empty THEN <<"nan">>
                              ELSE StatOf(keys[k][1],
                                     SliceOfFrame(f, describer.axis,
                                                  ((k - 1) % Len(labels)) + 1))]]
    /\ UNCHANGED exceptDescriber

DescriberNext ==
    \/ DescribeGuard
    \/ DescribeAggregate
    \/ DescribeAggregateEmpty
    \/ DescribeAssemble

SpecDescriber == DescriberInit /\ [][DescriberNext]_allvars

DescriberEnded == describer.pc \in {"done", "raised"}

(* table.columns.get_level_values(0), as a set *)
StatisticLevel == {describer.keys[k][1] : k \in 1..Len(describer.keys)}

SevenStatistics == {"min", "max", "sum", "mean", "median", "std", "coeff_var"}

NotFrameRefused ==
    describer.data.kind # "DataFrame" =>
        /\ describer.pc \in {"call", "raised"}
        /\ describer.computed = {}
        /\ describer.pc = "raised" => describer.err = ErrNotFrame

(* C22, as stated: data that is not a DataFrame raises ValueError and no    *)
(* statistic is computed; every DataFrame gives a table whose statistic     *)
(* level is exactly the seven statistics.                                   *)
DescribeTableContract ==
    /\ NotFrameRefused
    /\ (describer.data.kind = "DataFrame" /\ DescriberEnded) =>
          (describer.pc = "done" /\ StatisticLevel = SevenStatistics)

(* C22, amended: the same refusal; a DataFrame of numbers with at least one *)
(* column and one row and distinct labels along the described axis gives a  *)
(* table with the seven statistics, in order, for every label; no table     *)
(* that is returned has any other statistic, and a table for a frame with   *)
(* no label along the axis has none.                                        *)
DescribeTableNumeric ==
    /\ NotFrameRefused
    /\ LET f == describer.data
           labels == LabelsOf(f, describer.axis)
       IN  /\ ( /\ f.kind = "DataFrame"
                /\ DescriberEnded
                /\ f.numeric
                /\ ~Degenerate(f, describer.axis)
                /\ Distinct(labels) )
               => /\ describer.pc = "done"
                  /\ StatisticLevel = SevenStatistics
                  /\ describer.keys = TableKeys(ordered_stats, labels)
           /\ describer.pc = "done" =>
                /\ StatisticLevel \subseteq SevenStatistics
                /\ labels = <<>> => StatisticLevel = {}

(* C22 witness: the frame of the repository's test, a = 0, 1 and b = 1, 3   *)
(* by columns, described: sum of b is 4, mean of a is 1/2.                  *)
DescribeTableNumericWitness ==
    /\ describer.pc = "done"
    /\ describer.axis = 0
    /\ describer.data.columns = <<"a", "b">>
    /\ describer.data.cells = << <<0, 1>>, <<1, 3>> >>
    /\ describer.keys[4] = <<"max", "b">>
    /\ describer.values[6] = <<4>>
    /\ describer.values[7] = <<1, 2>>

----------------------------------------------------------------------------
(* _mine_ascii_cluster at the level of bytes (fs/parsers/uvvis_spc.py).     *)
(* A buffer is its length and what lies in it, everything else being zero   *)
(* bytes: at most one signature (\x02 analyst \x0b comments), runs of       *)
(* printable text and eight-byte FILETIME stamps, each at its offset.       *)
(* Text is a tuple of characters, so that a run can be cut at a window      *)
(* edge.                                                                    *)
WindowHalf == 256

UVProbeText == <<"U", "V", "P", "r", "o", "b", "e">>
Version242 == <<"2", ".", "4", "2">>
Version10 == <<"1", ".", "0">>
Version37 == <<"3", ".", "7">>
SerialText == <<"A", "1", "2", "3", "4", "5", "6">>
SeriesText == <<"U", "V", "-", "2", "6", "0", "0", " ", "S", "e", "r", "i", "e", "s">>
JunkText == <<"a", "b", "c">>
AnalystText == <<"A", "n", "n">>
CommentsText == <<"r", "u", "n", " ", "1">>

Text(at, chars) == [at |-> at, kind |-> "text", text |-> chars, stamp |-> 0]
Stamp(at, id) == [at |-> at, kind |-> "stamp", text |-> <<>>, stamp |-> id]

(* where the signature may start, and the lengths of the buffer *)
Layouts ==
    { [len |-> 640, sig |-> Some(300)],
      [len |-> 640, sig |-> Some(100)],
      [len |-> 400, sig |-> Some(200)],
      [len |-> 640, sig |-> None] }

(* what may lie at each offset: before, across and after the edges of the   *)
(* window of a signature at 300 (44 and 556), and around the signature      *)
SlotChoices ==
    << {Text(20, UVProbeText), Text(20, Version10), Stamp(20, 1)},
       {Text(41, Version242), Text(41, UVProbeText), Stamp(40, 2)},
       {Text(250, Version37), Text(250, JunkText), Text(250, UVProbeText)},
       {Text(280, UVProbeText), Text(280, SerialText), Text(280, JunkText)},
       {Text(330, Version242), Text(330, SeriesText), Stamp(330, 3)},
       {Text(360, Version10), Text(360, UVProbeText), Stamp(360, 4)},
       {Text(553, Version242), Stamp(548, 5), Stamp(547, 6)},
       {Text(600, Version37), Text(600, SeriesText), Stamp(600, 7)} >>

PieceLen(p) == IF p.kind = "stamp" THEN 8 ELSE Len(p.text)

RECURSIVE SlotPicks(_)
SlotPicks(i) ==
    IF i = 0 THEN {{}}
    ELSE {rest \cup {p} : rest \in SlotPicks(i - 1), p \in SlotChoices[i]}

MinerBlobs ==
    { [len |-> l.len, sig |-> l.sig,
       pieces |-> {p \in pick : p.at + PieceLen(p) <= l.len}] :
        l \in Layouts, pick \in SlotPicks(Len(SlotChoices)) }

(* the bytes of the signature, when there is one: \x02, the analyst, \x0b,  *)
(* the comments, then a zero byte                                           *)
SignatureRuns(b) ==
    IF b.sig = None THEN {}
    ELSE {Text(Get(b.sig) + 1, AnalystText),
          Text(Get(b.sig) + 2 + Len(AnalystText), CommentsText)}

RECURSIVE Ascend(_)
Ascend(S) ==
    IF S = {} THEN <<>>
    ELSE LET m == CHOOSE x \in S : \A y \in S : x <= y
         IN  <<m>> \o Ascend(S \ {m})

(* _ascii_runs(b[lo:hi]): the printable runs of the slice, each cut at the  *)
(* ends of the slice and kept if at least 3 characters are left, in the     *)
(* order of their offsets                                                   *)
AsciiRuns(b, lo, hi) ==
    LET runs == {p \in b.pieces : p.kind = "text"} \cup SignatureRuns(b)
        cut(p) == LET from == IF p.at < lo THEN lo ELSE p.at
                      to == IF p.at + Len(p.text) > hi THEN hi ELSE p.at + Len(p.text)
                  IN  [at |-> from,
                       text |-> IF to - from <= 0 THEN <<>>
                                ELSE SubSeq(p.text, from - p.at + 1, to - p.at)]
        kept == {cut(p) : p \in {q \in runs : Len(cut(q).text) >= 3}}
        order == Ascend({t.at : t \in kept})
    IN  [i \in 1..Len(order) |-> (CHOOSE t \in kept : t.at = order[i]).text]

Digits == {"0", "1", "2", "3", "4", "5", "6", "7", "8", "9"}

(* ^\d+\.\d+$ *)
IsVersion(t) ==
    \E k \in 2..(Len(t) - 1) :
        /\ t[k] = "."
        /\ \A i \in (1..Len(t)) \ {k} : t[i] \in Digits

(* ^A\d{6,}$ *)
IsSerial(t) ==
    /\ Len(t) >= 7
    /\ t[1] = "A"
    /\ \A i \in 2..Len(t) : t[i] \in Digits

(* UV-\d{3,4}, anywhere in the token *)
HasModelName(t) ==
    \E i \in 1..(Len(t) - 5) :
        /\ SubSeq(t, i, i + 2) = <<"U", "V", "-">>
        /\ \A j \in (i + 3)..(i + 5) : t[j] \in Digits

(* UV-\d+\s+Series, anywhere in the token *)
HasSeries(t) ==
    \E i \in 1..Len(t), d \in 1..Len(t), sp \in 1..Len(t) :
        /\ i + 2 + d + sp + 6 <= Len(t)
        /\ SubSeq(t, i, i + 2) = <<"U", "V", "-">>
        /\ \A j \in (i + 3)..(i + 2 + d) : t[j] \in Digits
        /\ \A j \in (i + 3 + d)..(i + 2 + d + sp) : t[j] = " "
        /\ SubSeq(t, i + 3 + d + sp, i + 2 + d + sp + 6) = <<"S", "e", "r", "i", "e", "s">>

(* _first(tokens, pattern) *)
First(tokens, Matches(_)) ==
    IF \E j \in 1..Len(tokens) : Matches(tokens[j])
    THEN Some(tokens[CHOOSE j \in 1..Len(tokens) :
                       /\ Matches(tokens[j])
                       /\ \A k \in 1..(j - 1) : ~Matches(tokens[k])])
    ELSE None

(* the loop of _nearest from token j on, best being None or the pair        *)
(* distance, token; the last of the nearest wins in this variant            *)
RECURSIVE NearestLoopLast(_, _, _, _)
NearestLoopLast(tokens, idx, j, found) ==
    IF j > Len(tokens) THEN found
    ELSE IF IsVersion(tokens[j]) /\ (found = None \/ Abs(j - idx) <= Get(found)[1])
    THEN NearestLoopLast(tokens, idx, j + 1, Some(<<Abs(j - idx), tokens[j]>>))
    ELSE NearestLoopLast(tokens, idx, j + 1, found)

(* for j, t in enumerate(tokens): if rx.search(t): if best is None or       *)
(* abs(j - idx) < best[0]: best = (abs(j - idx), t)                         *)
RECURSIVE NearestLoop(_, _, _, _)
NearestLoop(tokens, idx, j, found) ==
    IF j > Len(tokens) THEN found
    ELSE IF IsVersion(tokens[j]) /\ (found = None \/ Abs(j - idx) < Get(found)[1])
    THEN NearestLoop(tokens, idx, j + 1, Some(<<Abs(j - idx), tokens[j]>>))
    ELSE NearestLoop(tokens, idx, j + 1, found)

(* _nearest(tokens, "UVProbe", r"^\d+\.\d+$") *)
Nearest(tokens) ==
    IF ~\E j \in 1..Len(tokens) : tokens[j] = UVProbeText THEN None
    ELSE LET idx == CHOOSE j \in 1..Len(tokens) :
                       /\ tokens[j] = UVProbeText
                       /\ \A k \in 1..(j - 1) : tokens[k] # UVProbeText
             found == NearestLoop(tokens, idx, 1, None)
         IN  IF found = None THEN None ELSE Some(Get(found)[2])

(* the eight-byte groups _first_filetime reads in b[lo:hi]: the offsets     *)
(* range(0, max(0, len(window) - 8)); the first stamp among them            *)
FirstStampIn(b, lo, hi) ==
    LET read == {p \in b.pieces : p.kind = "stamp" /\ p.at >= lo /\ p.at - lo < (hi - lo) - 8}
    IN  IF read = {} THEN None
        ELSE Some((CHOOSE p \in read : \A q \in read : p.at <= q.at).stamp)

(* the window of the miner when it takes the whole buffer for its tokens *)
WholeBuffer(b, center) == <<0, b.len>>

(* win_start, win_end = max(0, center - 256), min(len(blob), center + 256) *)
WindowAround(b, center) ==
    << IF center - WindowHalf < 0 THEN 0 ELSE center - WindowHalf,
       IF center + WindowHalf > b.len THEN b.len ELSE center + WindowHalf >>

NoFields ==
    [analyst |-> None, comments |-> None, software |-> None, model_sn |-> None,
     type |-> None, name |-> None, datetime |-> None]

exceptMiner ==
    <<vars, filetime, slicer, rounding, plot, threads, labeller,
      describer, capper, iqr, smoother, mathstat>>

MinerInit ==
    /\ MainIdle
    /\ miner \in { [pc |-> "signature", blob |-> b, found |-> FALSE, win |-> <<0, 0>>,
                    tokens |-> <<>>, out |-> NoFields] : b \in MinerBlobs }
    /\ filetime = Idle
    /\ slicer = Idle
    /\ rounding = Idle
    /\ plot = Idle
    /\ threads = Idle
    /\ labeller = Idle
    /\ describer = Idle
    /\ capper = Idle
    /\ iqr = Idle
    /\ smoother = Idle
    /\ mathstat = Idle

(* m = re.search(signature, blob); the analyst, the comments, the window *)
MinerSignature ==
    /\ miner.pc = "signature"
    /\ miner' = IF miner.blob.sig = None
                THEN [miner EXCEPT !.pc = "tokens"]
                ELSE [miner EXCEPT !.pc = "tokens",
                                   !.found = TRUE,
                                   !.out.analyst = Some(AnalystText),
                                   !.out.comments = Some(CommentsText),
                                   !.win = WindowAround(miner.blob, Get(miner.blob.sig))]
    /\ UNCHANGED exceptMiner

(* tokens = _ascii_runs(blob[win_start:win_end]) if m else _ascii_runs(blob) *)
MinerTokens ==
    /\ miner.pc = "tokens"
    /\ miner' = [miner EXCEPT
                   !.pc = "software",
                   !.tokens = IF miner.found
                              THEN AsciiRuns(miner.blob, miner.win[1], miner.win[2])
                              ELSE AsciiRuns(miner.blob, 0, miner.blob.len)]
    /\ UNCHANGED exceptMiner

(* if "UVProbe" in tokens: name, and version = ver if ver else None *)
MinerSoftware ==
    /\ miner.pc = "software"
    /\ miner' = IF \E j \in 1..Len(miner.tokens) : miner.tokens[j] = UVProbeText
                THEN [miner EXCEPT !.pc = "instrument",
                                   !.out.software = Some([name |-> UVProbeText,
                                                          version |-> Nearest(miner.tokens)])]
                ELSE [miner EXCEPT !.pc = "instrument"]
    /\ UNCHANGED exceptMiner

(* model_sn, type and name by _first *)
MinerInstrument ==
    /\ miner.pc = "instrument"
    /\ miner' = [miner EXCEPT !.pc = "filetime",
                              !.out.model_sn = First(miner.tokens, IsSerial),
                              !.out.type = First(miner.tokens, HasSeries),
                              !.out.name = First(miner.tokens, HasModelName)]
    /\ UNCHANGED exceptMiner

(* if m: t_utc = _first_filetime(blob[win_start:win_end]) and the dates *)
MinerFiletime ==
    /\ miner.pc = "filetime"
    /\ miner.found
    /\ miner' = [miner EXCEPT !.pc = "done",
                              !.out.datetime = FirstStampIn(miner.blob, miner.win[1], miner.win[2])]
    /\ UNCHANGED exceptMiner

(* no signature: return out *)
MinerReturn ==
    /\ miner.pc = "filetime"
    /\ ~miner.found
    /\ miner' = [miner EXCEPT !.pc = "done"]
    /\ UNCHANGED exceptMiner

MinerNext ==
    \/ MinerSignature
    \/ MinerTokens
    \/ MinerSoftware
    \/ MinerInstrument
    \/ MinerFiletime
    \/ MinerReturn

SpecMiner == MinerInit /\ [][MinerNext]_allvars

MinerPast(pcs) == miner.pc \in pcs

(* the buffer with every byte outside [lo, hi) set to zero: text is cut at  *)
(* the edges, a stamp stays only if all of its eight bytes are inside       *)
Blanked(b, lo, hi) ==
    [ b EXCEPT !.pieces =
        { p \in b.pieces : p.kind = "stamp" /\ lo <= p.at /\ p.at + 8 <= hi }
        \cup
        { Text(IF p.at < lo THEN lo ELSE p.at,
               SubSeq(p.text,
                      (IF p.at < lo THEN lo - p.at ELSE 0) + 1,
                      (IF p.at + Len(p.text) > hi THEN hi - p.at ELSE Len(p.text)))) :
            p \in { q \in b.pieces : q.kind = "text" /\ q.at < hi /\ q.at + Len(q.text) > lo } } ]

(* C24: with a signature at offset s the window is [max(0, s - 256),        *)
(* min(len, s + 256)); the tokens, and with them the software and           *)
(* instrument fields, and the date are those of the buffer with everything  *)
(* outside the window zeroed, the date being a stamp that lies wholly in    *)
(* the window.  Without a signature the tokens are the runs of the whole    *)
(* buffer and no date is looked for.                                        *)
WindowOnly ==
    MinerPast({"software", "instrument", "filetime", "done"}) =>
      LET b == miner.blob
          s == Get(b.sig)
          lo == IF s < WindowHalf THEN 0 ELSE s - WindowHalf
          hi == IF s + WindowHalf > b.len THEN b.len ELSE s + WindowHalf
          inside == Blanked(b, lo, hi)
      IN  IF b.sig # None
          THEN /\ miner.found
               /\ miner.win = <<lo, hi>>
               /\ miner.tokens = AsciiRuns(inside, 0, b.len)
               /\ miner.pc = "done" =>
                    /\ miner.out.datetime = FirstStampIn(inside, lo, hi)
                    /\ miner.out.datetime # None =>
                          \E p \in b.pieces : /\ p.kind = "stamp"
                                              /\ p.stamp = Get(miner.out.datetime)
                                              /\ lo <= p.at
                                              /\ p.at + 8 <= hi
                    /\ miner.out.model_sn = First(AsciiRuns(inside, 0, b.len), IsSerial)
                    /\ miner.out.type = First(AsciiRuns(inside, 0, b.len), HasSeries)
                    /\ miner.out.name = First(AsciiRuns(inside, 0, b.len), HasModelName)
                    /\ miner.out.software # None
                         <=> \E j \in 1..Len(AsciiRuns(inside, 0, b.len)) :
                                AsciiRuns(inside, 0, b.len)[j] = UVProbeText
          ELSE /\ ~miner.found
               /\ miner.tokens = AsciiRuns(b, 0, b.len)
               /\ miner.out.datetime = None
               /\ miner.out.analyst = None
               /\ miner.out.comments = None

(* C24 witness: signature at 300; "UVProbe" at 20 and a stamp at 600 lie    *)
(* outside the window and leave no trace, the serial number at 280 is       *)
(* mined.                                                                   *)
WindowOnlyWitness ==
    /\ miner.pc = "done"
    /\ miner.blob.sig = Some(300)
    /\ miner.win = <<44, 556>>
    /\ Text(20, UVProbeText) \in miner.blob.pieces
    /\ Stamp(600, 7) \in miner.blob.pieces
    /\ miner.out.software = None
    /\ miner.out.datetime = None
    /\ miner.out.model_sn = Some(SerialText)

(* C25: the software fields are set exactly when some token equals          *)
(* "UVProbe"; the version is then None when no token matches ^\d+\.\d+$,    *)
(* and otherwise the matching token whose index is nearest to the index of  *)
(* the first "UVProbe" token, the one of lowest index when two are equally  *)
(* near.                                                                    *)
VersionNearest ==
    MinerPast({"instrument", "filetime", "done"}) =>
      LET tokens == miner.tokens
          named == {j \in 1..Len(tokens) : tokens[j] = UVProbeText}
          matching == {j \in 1..Len(tokens) : IsVersion(tokens[j])}
          idx == CHOOSE j \in named : \A k \in named : j <= k
      IN  /\ miner.out.software # None <=> named # {}
          /\ named # {} =>
               /\ Get(miner.out.software).name = UVProbeText
               /\ matching = {} <=> Get(miner.out.software).version = None
               /\ matching # {} =>
                    \E j \in matching :
                       /\ Get(miner.out.software).version = Some(tokens[j])
                       /\ \A k \in matching :
                             \/ Abs(j - idx) < Abs(k - idx)
                             \/ (Abs(j - idx) = Abs(k - idx) /\ j <= k)

(* C25 witness: "3.7", "UVProbe", "2.42" in a row: both versions are one    *)
(* token away, the earlier one is taken.                                    *)
VersionNearestWitness ==
    /\ miner.pc = "done"
    /\ \E j \in 2..(Len(miner.tokens) - 1) :
          /\ miner.tokens[j] = UVProbeText
          /\ miner.tokens[j - 1] = Version37
          /\ miner.tokens[j + 1] = Version242
          /\ \A k \in 1..Len(miner.tokens) : miner.tokens[k] = UVProbeText => k = j
    /\ miner.out.software = Some([name |-> UVProbeText, version |-> Some(Version37)])

----------------------------------------------------------------------------
(* The field extractor _cap, _cap_broken_interpolate and                    *)
(* _parse_operation_props (fs/parsers/uvvis_spc.py).  A chunk is its        *)
(* lines, a line the words on it, separated by single blanks; a value is    *)
(* the words captured.                                                      *)
MaxLines == 3
MaxWords == 2

Words == {"Interpolate:", "Average:", "Enabled", "Interpol", "ate:"}

Labels == {"Interpolate:", "Average:"}

Lines == UNION { [1..n -> Words] : n \in 0..MaxWords }

Chunks == UNION { [1..n -> Lines] : n \in 1..MaxLines }

(* _is_label_like: ^[A-Za-z][A-Za-z /]*:\s*$ -- letters and blanks up to a  *)
(* colon that ends the text                                                 *)
IsLabelLike(val) ==
    /\ val # <<>>
    /\ val[Len(val)] \in Labels \cup {"ate:"}
    /\ \A i \in 1..(Len(val) - 1) : val[i] \in {"Enabled", "Interpol"}

(* the places of a chunk, in reading order *)
Places(chunk) == {<<l, w>> : l \in 1..Len(chunk), w \in 1..MaxWords} 

Before(p, q) == p[1] < q[1] \/ (p[1] = q[1] /\ p[2] <= q[2])

FirstPlace(S) == CHOOSE p \in S : \A q \in S : Before(p, q)

RestOfLine(chunk, p) == SubSeq(chunk[p[1]], p[2] + 1, Len(chunk[p[1]]))

(* the guard of both stages left out: any captured text is returned *)
CapUnguarded(chunk, label) ==
    LET at == {p \in Places(chunk) : p[2] <= Len(chunk[p[1]]) /\ chunk[p[1]][p[2]] = label}
        same == {p \in at : RestOfLine(chunk, p) # <<>>}
        next == {p \in at : p[1] < Len(chunk) /\ chunk[p[1] + 1] # <<>>}
    IN  IF same # {} THEN Some(RestOfLine(chunk, FirstPlace(same)))
        ELSE IF next # {} THEN Some(chunk[FirstPlace(next)[1] + 1])
        ELSE None

(* _cap(chunk, label): the rest of the line of the first label that has     *)
(* one, unless it is shaped like a label; then the line after the first     *)
(* label that is followed by a line with text, under the same guard         *)
Cap2(chunk, label) ==
    LET at == {p \in Places(chunk) : p[2] <= Len(chunk[p[1]]) /\ chunk[p[1]][p[2]] = label}
        same == {p \in at : RestOfLine(chunk, p) # <<>>}
        next == {p \in at : p[1] < Len(chunk) /\ chunk[p[1] + 1] # <<>>}
        val == RestOfLine(chunk, FirstPlace(same))
        cand == chunk[FirstPlace(next)[1] + 1]
    IN  IF same # {} /\ ~IsLabelLike(val) THEN Some(val)
        ELSE IF next # {} /\ ~IsLabelLike(cand) THEN Some(cand)
        ELSE None

(* _cap_broken_interpolate: from the first "Interpol" the nearest "ate:"    *)
(* that text follows, across blanks and line ends; the rest of the line     *)
(* where that text begins                                                   *)
CapBrokenInterpolate(chunk) ==
    LET used == {p \in Places(chunk) : p[2] <= Len(chunk[p[1]])}
        starts == {p \in used : chunk[p[1]][p[2]] \in {"Interpol", "Interpolate:"}}
        start == FirstPlace(starts)
        ends == {p \in used : /\ Before(start, p)
                              /\ chunk[p[1]][p[2]] \in {"ate:", "Interpolate:"}
                              /\ (p = start => chunk[p[1]][p[2]] = "Interpolate:")}
        follows(p) == \/ RestOfLine(chunk, p) # <<>>
                      \/ \E l \in (p[1] + 1)..Len(chunk) : chunk[l] # <<>>
        good == {p \in ends : follows(p)}
        end == FirstPlace(good)
    IN  IF starts = {} \/ good = {} THEN None
        ELSE IF RestOfLine(chunk, end) # <<>> THEN Some(RestOfLine(chunk, end))
        ELSE Some(chunk[CHOOSE l \in (end[1] + 1)..Len(chunk) :
                          /\ chunk[l] # <<>>
                          /\ \A k \in (end[1] + 1)..(l - 1) : chunk[k] = <<>>])

exceptCapper ==
    <<vars, filetime, slicer, rounding, plot, threads, labeller,
      describer, miner, iqr, smoother, mathstat>>

CapperInit ==
    /\ MainIdle
    /\ capper \in { [pc |-> "interpolate", chunk |-> c, interp |-> None,
                     out |-> [k \in {} |-> None]] : c \in Chunks }
    /\ filetime = Idle
    /\ slicer = Idle
    /\ rounding = Idle
    /\ plot = Idle
    /\ threads = Idle
    /\ labeller = Idle
    /\ describer = Idle
    /\ miner = Idle
    /\ iqr = Idle
    /\ smoother = Idle
    /\ mathstat = Idle

(* threshold and points (the chunks here hold no digits), then              *)
(* interp = _cap(chunk, "Interpolate:") or _cap(chunk, "Interpolate:")      *)
CapInterpolate ==
    /\ capper.pc = "interpolate"
    /\ capper' = [capper EXCEPT
                    !.pc = "broken",
                    !.out = [k \in {"threshold", "points"} |-> None],
                    !.interp = IF Cap2(capper.chunk, "Interpolate:") # None
                               THEN Cap2(capper.chunk, "Interpolate:")
                               ELSE Cap2(capper.chunk, "Interpolate:")]
    /\ UNCHANGED exceptCapper

(* if interp is None: interp = _cap_broken_interpolate(chunk); then the put *)
CapBroken ==
    /\ capper.pc = "broken"
    /\ capper.interp = None
    /\ LET interp == CapBrokenInterpolate(capper.chunk)
       IN  capper' = [capper EXCEPT
                        !.pc = "average",
                        !.interp = interp,
                        !.out = [k \in DOMAIN capper.out \cup {"interpolate"} |->
                                    IF k = "interpolate" THEN interp ELSE capper.out[k]]]
    /\ UNCHANGED exceptCapper

(* the value of the two guarded stages is put *)
CapKept ==
    /\ capper.pc = "broken"
    /\ capper.interp # None
    /\ capper' = [capper EXCEPT
                    !.pc = "average",
                    !.out = [k \in DOMAIN capper.out \cup {"interpolate"} |->
                                IF k = "interpolate" THEN capper.interp ELSE capper.out[k]]]
    /\ UNCHANGED exceptCapper

(* _put(out, "average", _cap(chunk, "Average:")); return out *)
CapAverage ==
    /\ capper.pc = "average"
    /\ capper' = [capper EXCEPT
                    !.pc = "done",
                    !.out = [k \in DOMAIN capper.out \cup {"average"} |->
                                IF k = "average" THEN Cap2(capper.chunk, "Average:")
                                ELSE capper.out[k]]]
    /\ UNCHANGED exceptCapper

CapperNext ==
    \/ CapInterpolate
    \/ CapBroken
    \/ CapKept
    \/ CapAverage

SpecCapper == CapperInit /\ [][CapperNext]_allvars

Guarded(value) == value = None \/ (Get(value) # <<>> /\ ~IsLabelLike(Get(value)))

(* what holds of the two guarded stages: average is never empty or shaped   *)
(* like a label, and neither is an interpolate that did not need the third  *)
(* stage                                                                    *)
GuardedStages ==
    /\ capper.pc = "done" => Guarded(capper.out["average"])
    /\ (capper.pc = "done" /\ Cap2(capper.chunk, "Interpolate:") # None)
          => Guarded(capper.out["interpolate"])

(* C23: no string field the extractor produces, interpolate with its third  *)
(* stage included, is empty or shaped like a label; "Interpolate:" with     *)
(* "Average:" on the next line leaves interpolate absent.                   *)
LabelShapeGuard ==
    capper.pc = "done" =>
        /\ Guarded(capper.out["interpolate"])
        /\ Guarded(capper.out["average"])
        /\ capper.chunk = << <<"Interpolate:">>, <<"Average:">> >>
              => capper.out["interpolate"] = None
====
